---- MODULE Spec2Model ----
(***************************************************************************)
(* HiAnime video source resolution: the orchestrator HiAnime.get_video     *)
(* (with the /watch endpoint in front of it), the MegaCloud extractor and  *)
(* the StreamTape extractor.                                               *)
(*                                                                         *)
(* Twelve specifications share the module:                                 *)
(*   Spec      one get_video call, called directly or through /watch       *)
(*   SpecPair  two get_video calls on the same episode whose server        *)
(*             arguments differ at most in letter case                     *)
(*   SpecWatch /watch answering for every kind of result a core may return *)
(*   SpecMega  two interleaved MegaCloudExtractor.extract calls on one     *)
(*             extractor instance, the key registry rotating meanwhile     *)
(*   SpecOne   one extract call against every response of every host       *)
(*   SpecPlaylist one extract call over every playlist text up to MaxLines *)
(*             lines                                                       *)
(*   SpecHosts one extract call, its embed URL on one of two hosts         *)
(*   SpecNonce one extract call over every embed page body up to MaxSegs   *)
(*             character runs                                              *)
(*   SpecTapeUrl  one StreamTapeExtractor.extract call over every URL up   *)
(*             to MaxParts segments                                        *)
(*   SpecTapePage one StreamTapeExtractor.extract call over every          *)
(*             robotlink script up to MaxPlaces pattern places             *)
(*   SpecApi   one request to /search, /popular, /latest, /episodes or     *)
(*             /servers, for every kind of result the core may return      *)
(*   SpecSessions the requests and close calls of the site client and the  *)
(*             two extractors, in any order, up to MaxRequests requests    *)
(*             of each                                                     *)
(***************************************************************************)
EXTENDS Integers, Sequences, FiniteSets, TLC

VARIABLES
    site,       \* the origin site's server markup of the episode: bucket -> Seq of items
    gv,         \* the get_video calls: call id -> frame (arguments, locals, result)
    mc,         \* the MegaCloudExtractor.extract calls: call id -> frame
    registry,   \* the key the key registry currently publishes
    rotations,  \* how often the registry key was rotated
    wire,       \* the requests each extract call has sent, in order
    env,        \* which embed bodies, sources responses and playlists the hosts serve
    tape,       \* the StreamTapeExtractor.extract call: its frame and what it fetched
    api,        \* the request a listing endpoint of app.py handles, and its answer
    sess        \* the HTTP sessions of the three actors and the requests sent on them

vars == <<site, gv, mc, registry, rotations, wire, env, tape, api, sess>>

orchVars == <<site, gv>>

megaVars == <<mc, registry, rotations, wire, env>>

tapeVars == <<tape>>

apiVars == <<api>>

sessVars == <<sess>>

(***************************************************************************)
(* Bounds                                                                  *)
(***************************************************************************)
MaxItems == 2       \* hosters the site lists for the episode, all buckets together

MaxSources == 2     \* source items in one sources response

MaxRotations == 1   \* rotations of the registry key during a run

MaxLines == 4       \* lines of a playlist text

MaxParts == 5       \* "/"-delimited segments of a StreamTape URL

MaxPlaces == 3      \* places of a script where a StreamTape pattern could match

MaxSegs == 5        \* character runs in an embed page body

MaxRequests == 4    \* requests one HTTP actor sends

Calls == {1, 2}

\* Python's None where a dict (a server, a video, a result) is expected
None == [none |-> TRUE]

\* the empty text "" and the empty list []: texts with parts are kept as tuples
Empty == <<>>

\* Python truthiness of a dict-or-None, and of a text or list
TruthyDict(v) == v # None

TruthySeq(v) == v # Empty

(***************************************************************************)
(* hianime.py: the server directory                                        *)
(***************************************************************************)
HOSTER_NAMES == {"HD-1", "HD-2", "HD-3", "StreamTape"}

\* the keys of `servers`, in the order of type_mapping
Buckets == <<"sub", "dub", "raw", "mixed">>

BucketSet == {Buckets[i] : i \in 1..Len(Buckets)}

\* names the site may display on a hoster item: the four known ones and others
SiteNames == HOSTER_NAMES \cup {"Vidcloud"}

\* str.lower() on the names and the phrases of the model
Lower(s) ==
    CASE s \in {"HD-1", "hd-1"} -> "hd-1"
      [] s \in {"HD-2"} -> "hd-2"
      [] s \in {"HD-3"} -> "hd-3"
      [] s \in {"StreamTape", "streamtape", "STREAMTAPE"} -> "streamtape"
      [] s \in {"Vidcloud"} -> "vidcloud"
      [] s \in {"not found", "Not Found", "NOT FOUND"} -> "not found"
      [] s \in {"invalid", "Invalid", "INVALID"} -> "invalid"
      [] OTHER -> s

\* the descriptor appended for a listed item of section type_key
Descriptor(item, type_key) ==
    [id |-> item.id, name |-> item.name, type |-> type_key]

\* a loop that appends every listed item, whatever its name
SectionServersAnyName(items, type_key) ==
    [i \in 1..Len(items) |-> Descriptor(items[i], type_key)]

\* the loop over one markup section: items with a known name, in listing order
SectionServers(items, type_key) ==
    LET Known(it) == it.name \in HOSTER_NAMES
        known == SelectSeq(items, Known)
    IN  [i \in 1..Len(known) |-> Descriptor(known[i], type_key)]

\* get_episode_servers: the `servers` mapping built from the markup `html`;
\* a truthy type_filter skips every section but its own
GetEpisodeServers(html, type_filter) ==
    [b \in BucketSet |->
        IF type_filter # "" /\ type_filter # b THEN Empty
        ELSE SectionServers(html[b], b)]

(***************************************************************************)
(* hianime.py: get_video                                                   *)
(***************************************************************************)
\* the order in which the fallback scan probes the buckets
FallbackOrder == <<"sub", "dub", "mixed", "raw">>

\* servers_data["servers"].get(t, [])
BucketOf(servers, t) == IF t \in DOMAIN servers THEN servers[t] ELSE <<>>

NameMatches(s, server) == Lower(s.name) = Lower(server)

\* for s in ...: if s["name"].lower() == server.lower(): target_server = s; break
FirstMatch(list, server) ==
    LET hits == {i \in 1..Len(list) : NameMatches(list[i], server)}
    IN  IF hits = {} THEN None
        ELSE list[CHOOSE i \in hits : \A j \in hits : i <= j]

\* the fallback scan from position k of FallbackOrder on
RECURSIVE FallbackScan(_, _, _, _)
FallbackScan(servers, server, type, k) ==
    IF k > Len(FallbackOrder) THEN [target |-> None, type |-> type]
    ELSE LET hit == FirstMatch(BucketOf(servers, FallbackOrder[k]), server)
         IN  IF hit # None THEN [target |-> hit, type |-> FallbackOrder[k]]
             ELSE FallbackScan(servers, server, type, k + 1)

\* lines 375-392: the target server and the effective type
FindServer(servers, server, type) ==
    LET hit == FirstMatch(BucketOf(servers, type), server)
    IN  IF hit # None THEN [target |-> hit, type |-> type]
        ELSE FallbackScan(servers, server, type, 1)

\* the error value returned when no bucket holds the server name
ServerNotFound(server, type, servers) ==
    [error |-> <<"Server '", server, "' not found for type '", type, "'">>,
     available_servers |-> servers]

SourceLinkMissing == [error |-> <<"Failed to get source link">>]

\* which resolver lines 410-415 invoke for the server argument
ResolverFor(server) ==
    IF server = "StreamTape" THEN "streamtape"
    ELSE IF server \in {"HD-1", "HD-2", "HD-3"} THEN "megacloud"
    ELSE "none"

\* the result envelope of lines 417-423
Envelope(server, type, source_link, videos) ==
    [episode_id |-> "ep", server |-> server, type |-> type,
     source_link |-> source_link, videos |-> videos]

(***************************************************************************)
(* The resolvers as get_video sees them: extract() of either extractor     *)
(* catches every Exception, so a call returns a value and never raises.    *)
(***************************************************************************)
\* the source link the site returns for a hoster id, when it returns one
LinkOf(id) == <<"embed", id>>

\* one stream as MegaCloudExtractor.extract appends it
MegaStream(res, type, name) ==
    [quality |-> <<name, res, type>>, url |-> <<"variant", res>>,
     subtitles |-> <<>>, referer |-> "https://host/"]

\* what MegaCloudExtractor.extract(url, type, name) may return: a list, empty or not
MegaCloudReturns(url, type, name) ==
    {<<>>,
     <<MegaStream("Auto", type, name)>>,
     <<MegaStream("1920x1080", type, name), MegaStream("1280x720", type, name)>>}

\* what StreamTapeExtractor.extract(url, quality) may return: None or one video
StreamTapeReturns(url, quality) ==
    {None, [quality |-> quality, url |-> <<"https:", url>>, subtitles |-> <<>>]}

(***************************************************************************)
(* app.py: GET /watch/{episode_id}                                         *)
(***************************************************************************)
VALID_SERVERS == {"HD-1", "HD-2", "HD-3", "StreamTape"}

VALID_TYPES == {"sub", "dub", "raw", "mixed"}

\* result.get(key) where only its truthiness is used: a missing key gives None,
\* which is as falsy as the empty text or list
Get(result, key) == IF key \in DOMAIN result THEN result[key] ELSE Empty

\* "not found" in error, without the lower()
ContainsNotFoundExactCase(error) ==
    \E i \in 1..Len(error) : error[i] \in {"' not found for type '", "not found"}

\* "not found" in error.lower(), the error text being kept as its pieces
ContainsNotFound(error) ==
    \E i \in 1..Len(error) : Lower(error[i]) \in {"' not found for type '", "not found"}

\* watch without its check of an empty `videos`
WatchResponseNoVideosCheck(result) ==
    IF TruthySeq(Get(result, "error"))
    THEN IF ContainsNotFound(result.error) THEN 404 ELSE 400
    ELSE 200

\* the status /watch answers for a result of get_video (lines 153-165)
WatchResponse(result) ==
    IF TruthySeq(Get(result, "error"))
    THEN IF ContainsNotFound(result.error) THEN 404 ELSE 400
    ELSE IF ~TruthySeq(Get(result, "videos")) THEN 404
    ELSE 200

(***************************************************************************)
(* The get_video state machine                                             *)
(***************************************************************************)
\* server and type arguments a caller may pass
ServerArgs == HOSTER_NAMES \cup {"hd-1", "streamtape", "Vidcloud"}

TypeArgs == VALID_TYPES \cup {"", "movie"}

\* outcomes of one AJAX GET through _fetch_json: a JSON body, a transport
\* error raised by session.get, a status raise_for_status rejects
AjaxOutcomes == {"ok", "transport_error", "bad_status"}

IdleFrame ==
    [pc |-> "idle", caller |-> "none", server |-> "", req_type |-> "", type |-> "",
     servers_data |-> None, target_server |-> None, source_link |-> Empty,
     resolver |-> "none", resolver_out |-> Empty, videos |-> <<>>,
     result |-> None, ajax |-> "", raised |-> "", status |-> 0, detail |-> None,
     trace |-> <<>>]

StartFrame(caller, server, type) ==
    [IdleFrame EXCEPT !.pc = IF caller = "watch" THEN "watch" ELSE "servers",
                      !.caller = caller, !.server = server,
                      !.req_type = type, !.type = type]

\* every markup the site may serve: at most MaxItems items over the four sections,
\* each item with an id of its own
Listings ==
    LET Flats == UNION {[1..n -> BucketSet \X SiteNames] : n \in 0..MaxItems}
        InBucket(f, b) ==
            LET Here(p) == p[1] = b
            IN  SelectSeq(f, Here)
    IN  {[b \in BucketSet |->
            [i \in 1..Len(InBucket(f, b)) |->
                [id |-> <<b, i>>, name |-> InBucket(f, b)[i][2]]]] : f \in Flats}

\* get_video returns `result` to its caller
Return(f, result) ==
    [f EXCEPT !.result = result,
              !.pc = IF f.caller = "watch" THEN "respond" ELSE "done"]

\* an exception leaves get_video; under /watch the framework answers 500
Raise(f, what) ==
    [f EXCEPT !.raised = what, !.pc = "done",
              !.status = IF f.caller = "watch" THEN 500 ELSE 0]

\* the detail of lines 139-142 and 146-149: the rejected value and the valid options
InvalidDetail(what, value, options) ==
    [what |-> what, value |-> value, options |-> options]

\* the two parameter checks in the other order
WatchValidateTypeFirst(c) ==
    /\ gv[c].pc = "watch"
    /\ gv' = [gv EXCEPT ![c] =
            IF gv[c].type \notin VALID_TYPES
            THEN [@ EXCEPT !.pc = "done", !.status = 400, !.trace = <<"invalid_type">>,
                           !.detail = InvalidDetail("Invalid type", gv[c].type, VALID_TYPES)]
            ELSE IF gv[c].server \notin VALID_SERVERS
            THEN [@ EXCEPT !.pc = "done", !.status = 400, !.trace = <<"invalid_server">>,
                           !.detail = InvalidDetail("Invalid server", gv[c].server, VALID_SERVERS)]
            ELSE [@ EXCEPT !.pc = "servers"]]
    /\ UNCHANGED <<site, megaVars, tapeVars, apiVars, sessVars>>

\* watch, lines 137-149: the parameter checks before get_video is called
WatchValidate(c) ==
    /\ gv[c].pc = "watch"
    /\ gv' = [gv EXCEPT ![c] =
            IF gv[c].server \notin VALID_SERVERS
            THEN [@ EXCEPT !.pc = "done", !.status = 400, !.trace = <<"invalid_server">>,
                           !.detail = InvalidDetail("Invalid server", gv[c].server, VALID_SERVERS)]
            ELSE IF gv[c].type \notin VALID_TYPES
            THEN [@ EXCEPT !.pc = "done", !.status = 400, !.trace = <<"invalid_type">>,
                           !.detail = InvalidDetail("Invalid type", gv[c].type, VALID_TYPES)]
            ELSE [@ EXCEPT !.pc = "servers"]]
    /\ UNCHANGED <<site, megaVars, tapeVars, apiVars, sessVars>>

\* get_video line 372: get_episode_servers(episode_id, type), one AJAX request
FetchServers(c) ==
    /\ gv[c].pc = "servers"
    /\ \E out \in AjaxOutcomes :
        gv' = [gv EXCEPT ![c] =
            LET f == [@ EXCEPT !.trace = Append(@, "servers"), !.ajax = out]
            IN  IF out # "ok" THEN Raise(f, out)
                ELSE [f EXCEPT !.pc = "find",
                               !.servers_data = GetEpisodeServers(site, f.type)]]
    /\ UNCHANGED <<site, megaVars, tapeVars, apiVars, sessVars>>

\* get_video lines 375-398: the lookup, the fallback scan, the ServerNotFound return
FindTarget(c) ==
    /\ gv[c].pc = "find"
    /\ gv' = [gv EXCEPT ![c] =
            LET found == FindServer(@.servers_data, @.server, @.type)
            IN  IF found.target = None
                THEN Return(@, ServerNotFound(@.server, found.type, @.servers_data))
                ELSE [@ EXCEPT !.pc = "sources", !.target_server = found.target,
                               !.type = found.type]]
    /\ UNCHANGED <<site, megaVars, tapeVars, apiVars, sessVars>>

\* a source-link step that goes on to the dispatch whatever link came back
FetchSourceLinkUnchecked(c) ==
    /\ gv[c].pc = "sources"
    /\ \E out \in AjaxOutcomes, link \in {Empty, LinkOf(gv[c].target_server.id)} :
        /\ out # "ok" => link = Empty
        /\ gv' = [gv EXCEPT ![c] =
            LET f == [@ EXCEPT !.trace = Append(@, "sources"), !.ajax = out]
            IN  IF out # "ok" THEN Raise(f, out)
                ELSE [f EXCEPT !.pc = "dispatch", !.source_link = link]]
    /\ UNCHANGED <<site, megaVars, tapeVars, apiVars, sessVars>>

\* get_video lines 401-405: _get_server_source_link, one AJAX request; the JSON
\* body carries the hoster's link or none
FetchSourceLink(c) ==
    /\ gv[c].pc = "sources"
    /\ \E out \in AjaxOutcomes, link \in {Empty, LinkOf(gv[c].target_server.id)} :
        /\ out # "ok" => link = Empty
        /\ gv' = [gv EXCEPT ![c] =
            LET f == [@ EXCEPT !.trace = Append(@, "sources"), !.ajax = out]
            IN  IF out # "ok" THEN Raise(f, out)
                ELSE IF ~TruthySeq(link)
                THEN Return([f EXCEPT !.source_link = link], SourceLinkMissing)
                ELSE [f EXCEPT !.pc = "dispatch", !.source_link = link]]
    /\ UNCHANGED <<site, megaVars, tapeVars, apiVars, sessVars>>

\* get_video lines 407-423: the dispatch on the server argument and the envelope
Dispatch(c) ==
    /\ gv[c].pc = "dispatch"
    /\ LET f == gv[c]
           r == ResolverFor(f.server)
       IN  \/ /\ r = "streamtape"
              /\ \E video \in StreamTapeReturns(f.source_link, <<"Streamtape - ", f.type>>) :
                    gv' = [gv EXCEPT ![c] =
                        Return([f EXCEPT !.resolver = r,
                                         !.resolver_out = IF TruthyDict(video) THEN <<video>> ELSE <<>>,
                                         !.trace = Append(@, r),
                                         !.videos = IF TruthyDict(video) THEN <<video>> ELSE <<>>],
                               Envelope(f.server, f.type, f.source_link,
                                        IF TruthyDict(video) THEN <<video>> ELSE <<>>))]
           \/ /\ r = "megacloud"
              /\ \E videos \in MegaCloudReturns(f.source_link, f.type, f.server) :
                    gv' = [gv EXCEPT ![c] =
                        Return([f EXCEPT !.resolver = r, !.resolver_out = videos,
                                         !.trace = Append(@, r), !.videos = videos],
                               Envelope(f.server, f.type, f.source_link, videos))]
           \/ /\ r = "none"
              /\ gv' = [gv EXCEPT ![c] =
                        Return(f, Envelope(f.server, f.type, f.source_link, <<>>))]
    /\ UNCHANGED <<site, megaVars, tapeVars, apiVars, sessVars>>

\* watch, lines 153-165: the status answered for the result
WatchRespond(c) ==
    /\ gv[c].pc = "respond"
    /\ gv' = [gv EXCEPT ![c] =
            [@ EXCEPT !.pc = "done", !.status = WatchResponse(gv[c].result)]]
    /\ UNCHANGED <<site, megaVars, tapeVars, apiVars, sessVars>>

(***************************************************************************)
(* megacloud_extractor.py: the embed page body and the nonce               *)
(*                                                                         *)
(* A body is kept as its maximal character runs, in document order: a run  *)
(* of [a-zA-Z0-9] characters with its length, a run of other word          *)
(* characters (the underscore, a letter outside ASCII), or a run of        *)
(* characters that are not word characters.  Two adjacent runs are of      *)
(* different classes.                                                      *)
(***************************************************************************)
NonceLen == 48      \* {48} of the first pattern

PartLen == 16       \* {16} of the second pattern

RunKinds ==
    {[cls |-> "alnum", len |-> n] : n \in {PartLen, PartLen + 1, NonceLen}}
        \cup {[cls |-> "word", len |-> 1], [cls |-> "sep", len |-> 1]}

WellFormedBody(b) == \A i \in 1..(Len(b) - 1) : b[i].cls # b[i + 1].cls

AllBodies ==
    {b \in UNION {[1..n -> RunKinds] : n \in 0..MaxSegs} : WellFormedBody(b)}

Run(n) == [cls |-> "alnum", len |-> n]

Sep == [cls |-> "sep", len |-> 1]

\* three bodies: one with a 48 run, one with three 16 runs, one with neither
SampleBodies ==
    {<<Sep, Run(NonceLen), Sep>>,
     <<Run(PartLen), Sep, Run(PartLen), Sep, Run(PartLen)>>,
     <<Run(PartLen + 1), Sep>>}

\* a pattern without the \b on either side: any neighbours do
Unbounded(b, i) == TRUE

\* \b stands on both sides of run i: no word character touches it
WordBounded(b, i) ==
    /\ i > 1 => b[i - 1].cls = "sep"
    /\ i < Len(b) => b[i + 1].cls = "sep"

\* the runs \b[a-zA-Z0-9]{n}\b can match: a whole run of exactly n characters
Matches(b, n) ==
    {i \in 1..Len(b) : b[i].cls = "alnum" /\ b[i].len = n /\ WordBounded(b, i)}

Least(S) == CHOOSE i \in S : \A j \in S : i <= j

NoNonce == <<>>

\* lines 119-129: the nonce, as the positions of the runs whose text it is made of
ExtractNonce(b) ==
    LET m1 == Matches(b, NonceLen)
        m2 == Matches(b, PartLen)
    IN  IF m1 # {} THEN <<Least(m1)>>
        ELSE IF Cardinality(m2) >= 3
        THEN LET g1 == Least(m2)
                 g2 == Least(m2 \ {g1})
                 g3 == Least(m2 \ {g1, g2})
             IN  <<g1, g2, g3>>
        ELSE NoNonce

(***************************************************************************)
(* megacloud_extractor.py: the playlist parser                             *)
(*                                                                         *)
(* A playlist is kept as its lines: a stream-info line with the value of   *)
(* its RESOLUTION attribute ("" when it has none), another comment line,   *)
(* a blank line, or a URL line, absolute or relative.                      *)
(***************************************************************************)
Inf(res) == [k |-> "inf", res |-> res]

UrlLine(n, abs) == [k |-> "url", n |-> n, abs |-> abs]

Comment == [k |-> "comment"]

Blank == [k |-> "blank"]

\* playlist.strip(): leading and trailing blank lines go
RECURSIVE StripHead(_)
StripHead(lines) ==
    IF lines # <<>> /\ Head(lines).k = "blank" THEN StripHead(Tail(lines)) ELSE lines

RECURSIVE StripTail(_)
StripTail(lines) ==
    IF lines # <<>> /\ lines[Len(lines)].k = "blank"
    THEN StripTail(SubSeq(lines, 1, Len(lines) - 1))
    ELSE lines

Strip(lines) == StripTail(StripHead(lines))

\* lines 248-251: an absolute URL as it is, a relative one after the base of m3u8_url
QualityUrl(line, m3u8_url) ==
    IF line.abs THEN [abs |-> TRUE, n |-> line.n]
    ELSE [abs |-> FALSE, n |-> line.n, base |-> m3u8_url]

\* a parser that skips a variant whose marker line has no RESOLUTION
RECURSIVE QualitiesFromSkipUnknown(_, _, _)
QualitiesFromSkipUnknown(lines, i, m3u8_url) ==
    IF i > Len(lines) THEN <<>>
    ELSE LET here ==
                IF /\ lines[i].k = "inf"
                   /\ lines[i].res # ""
                   /\ i + 1 <= Len(lines)
                   /\ lines[i + 1].k = "url"
                THEN <<[resolution |-> lines[i].res,
                        url |-> QualityUrl(lines[i + 1], m3u8_url)]>>
                ELSE <<>>
         IN  here \o QualitiesFromSkipUnknown(lines, i + 1, m3u8_url)

\* lines 233-258: the variants of a playlist text, from line i on
RECURSIVE QualitiesFrom(_, _, _)
QualitiesFrom(lines, i, m3u8_url) ==
    IF i > Len(lines) THEN <<>>
    ELSE LET here ==
                IF /\ lines[i].k = "inf"
                   /\ i + 1 <= Len(lines)
                   /\ lines[i + 1].k = "url"
                THEN <<[resolution |-> IF lines[i].res = "" THEN "Unknown" ELSE lines[i].res,
                        url |-> QualityUrl(lines[i + 1], m3u8_url)]>>
                ELSE <<>>
         IN  here \o QualitiesFrom(lines, i + 1, m3u8_url)

ParseQualities(playlist, m3u8_url) == QualitiesFrom(Strip(playlist), 1, m3u8_url)

\* the lines a playlist text is made of
LineKinds ==
    {Inf("1920x1080"), Inf("1280x720"), Inf(""), UrlLine(1, FALSE), UrlLine(2, TRUE),
     Comment, Blank}

\* every playlist text of up to MaxLines lines
AllPlaylists == UNION {[1..n -> LineKinds] : n \in 0..MaxLines}

SamplePlaylists ==
    {<<Comment, Inf("1920x1080"), UrlLine(1, FALSE), Inf(""), UrlLine(2, TRUE), Blank>>,
     <<Comment, Comment, UrlLine(1, FALSE)>>,
     <<Comment, Inf("1280x720"), Comment, UrlLine(1, FALSE)>>}

(***************************************************************************)
(* megacloud_extractor.py: what the hosts answer                           *)
(***************************************************************************)
\* the embed URLs extract may be given: with the /e-1/ marker or not, with a
\* video id after it or not, with a host or not
EmbedUrls ==
    {[host |-> "megacloud.tv", marker |-> TRUE, id |-> "vid"],
     [host |-> "megacloud.tv", marker |-> FALSE, id |-> "vid"],
     [host |-> "megacloud.tv", marker |-> TRUE, id |-> ""],
     [host |-> "", marker |-> TRUE, id |-> "vid"]}

\* well-formed embed URLs on two hosts, and one without a host
HostUrls ==
    {[host |-> h, marker |-> TRUE, id |-> "vid"] : h \in {"megacloud.tv", "rapid-cloud.co", ""}}

\* the `file` of a source item: a text with .m3u8 in it, another text, no text
Payloads == {"url.m3u8", "ciphertext", ""}

HasM3u8(encoded) == encoded = "url.m3u8"

\* the entries of a `tracks` list
Caption(lang) == [file |-> lang, label |-> lang, kind |-> "captions"]

Thumbnails == [file |-> "thumbs.vtt", kind |-> "thumbnails"]

SampleTracks ==
    {<<>>,
     <<Caption("en"), Thumbnails, [file |-> "fr", kind |-> "captions"]>>,
     <<[label |-> "broken", kind |-> "captions"]>>}

\* the JSON object of a sources response; "absent" is a response without the
\* `encrypted` key, for which data.get defaults to True
SourcesData(tracksets) ==
    {[sources |-> src, encrypted |-> e, tracks |-> t] :
        src \in UNION {[1..n -> Payloads] : n \in 0..MaxSources},
        e \in {"true", "false", "absent"},
        t \in tracksets}

\* two of them: a plain item before an encrypted one, two encrypted items
SampleSourcesData ==
    {[sources |-> src, encrypted |-> "true", tracks |-> <<Caption("en")>>] :
        src \in {<<"url.m3u8", "ciphertext">>, <<"ciphertext", "ciphertext">>}}

\* one encrypted item
SingleSourcesData ==
    {[sources |-> <<"ciphertext">>, encrypted |-> "true", tracks |-> <<Caption("en")>>]}

TransportError == [ok |-> FALSE]

EmbedResponses ==
    {TransportError} \cup
    {[ok |-> TRUE, body |-> b] :
        b \in IF env.bodies = "all" THEN AllBodies ELSE SampleBodies}

SourcesResponses ==
    {TransportError, [ok |-> TRUE, json |-> FALSE]} \cup
    {[ok |-> TRUE, json |-> TRUE, data |-> d] :
        d \in IF env.sources = "all" THEN SourcesData(SampleTracks)
              ELSE IF env.sources = "single" THEN SingleSourcesData
              ELSE SampleSourcesData}

Keys == {"k1", "k2"}

\* key = None
NoKey == ""

\* the registry answers with its current key, or in one of the ways
\* _request_new_key rejects
KeysResponses ==
    {TransportError,
     [ok |-> TRUE, status |-> 404, body |-> "error page"],
     [ok |-> TRUE, status |-> 200, body |-> ""],
     [ok |-> TRUE, status |-> 200, body |-> "not json"],
     [ok |-> TRUE, status |-> 200, body |-> "json", mega |-> NoKey],
     [ok |-> TRUE, status |-> 200, body |-> "json", mega |-> registry]}

\* the decryption service answers with a "file":"..." pattern (its text empty or
\* not) or without one
DecryptResponses(req) ==
    {TransportError,
     [ok |-> TRUE, file |-> FALSE],
     [ok |-> TRUE, file |-> TRUE, url |-> [how |-> "empty"]],
     [ok |-> TRUE, file |-> TRUE,
      url |-> [how |-> "decrypted", item |-> req.item, secret |-> req.secret]]}

PlaylistResponses ==
    {TransportError} \cup
    {[ok |-> TRUE, playlist |-> pl] :
        pl \in IF env.playlists = "all" THEN AllPlaylists ELSE SamplePlaylists}

\* the playable URL an item's payload is when it is used as it is
Verbatim(encoded, i) ==
    IF encoded = "" THEN [how |-> "empty"] ELSE [how |-> "verbatim", item |-> i]

EmptyUrl(u) == u.how = "empty"

(***************************************************************************)
(* megacloud_extractor.py: extract and _get_video_dto                      *)
(*                                                                         *)
(* One action per suspension point: a call runs from one awaited response  *)
(* to the next request it sends, and calls interleave only there.          *)
(***************************************************************************)
MegaIdle ==
    [pc |-> "idle", url |-> [host |-> "", marker |-> FALSE, id |-> ""],
     type |-> "", name |-> "", nonce |-> NoNonce, data |-> None, i |-> 0,
     key |-> NoKey, result |-> <<>>, j |-> 0, videos |-> <<>>, ret |-> <<>>,
     raised |-> FALSE, resp |-> <<>>]

\* an except clause that lets the exception through
FailRaises(f) == [f EXCEPT !.pc = "done", !.raised = TRUE]

\* lines 80-82: any Exception ends the call with the empty list
Fail(f) == [f EXCEPT !.pc = "done", !.ret = <<>>]

\* line 78: return videos
Finish(f) == [f EXCEPT !.pc = "done", !.ret = f.videos]

\* a frame and the requests sent while reaching it
Step(f, reqs) == [frame |-> f, reqs |-> reqs]

\* lines 52-56: the subtitles of a tracks list; a captions entry without `file`
\* raises KeyError
CaptionTracks(tracks) ==
    LET IsCaption(t) == "kind" \in DOMAIN t /\ t.kind = "captions"
    IN  SelectSeq(tracks, IsCaption)

SubtitlesRaise(tracks) ==
    \E k \in 1..Len(CaptionTracks(tracks)) : "file" \notin DOMAIN CaptionTracks(tracks)[k]

\* subtitles made of every track, whatever its kind
SubtitlesUnfiltered(tracks) ==
    [k \in 1..Len(tracks) |->
        [url |-> tracks[k].file,
         label |-> IF "label" \in DOMAIN tracks[k] THEN tracks[k].label ELSE "Unknown"]]

Subtitles(tracks) ==
    LET caps == CaptionTracks(tracks)
    IN  [k \in 1..Len(caps) |->
            [url |-> caps[k].file,
             label |-> IF "label" \in DOMAIN caps[k] THEN caps[k].label ELSE "Unknown"]]

\* streams whose referer is the root of the host that serves the playlist
StreamsOfPlaylistHost(f, video, qualities) ==
    LET subtitles == Subtitles(video.tracks)
        referer == <<"https://", "cdn.example", "/">>
    IN  IF qualities # <<>>
        THEN [q \in 1..Len(qualities) |->
                [quality |-> <<f.name, qualities[q].resolution, f.type>>,
                 url |-> qualities[q].url,
                 subtitles |-> subtitles, referer |-> referer]]
        ELSE IF ~EmptyUrl(video.m3u8)
        THEN <<[quality |-> <<f.name, "Auto", f.type>>, url |-> video.m3u8,
                subtitles |-> subtitles, referer |-> referer]>>
        ELSE <<>>

\* an Auto stream appended for every item, whether it has variants or not
StreamsOfAlwaysAuto(f, video, qualities) ==
    LET subtitles == Subtitles(video.tracks)
        referer == <<"https://", f.url.host, "/">>
    IN  [q \in 1..Len(qualities) |->
            [quality |-> <<f.name, qualities[q].resolution, f.type>>,
             url |-> qualities[q].url,
             subtitles |-> subtitles, referer |-> referer]]
        \o <<[quality |-> <<f.name, "Auto", f.type>>, url |-> video.m3u8,
               subtitles |-> subtitles, referer |-> referer]>>

\* lines 61-76: the streams of one source item, given its variants
StreamsOf(f, video, qualities) ==
    LET subtitles == Subtitles(video.tracks)
        referer == <<"https://", f.url.host, "/">>
    IN  IF qualities # <<>>
        THEN [q \in 1..Len(qualities) |->
                [quality |-> <<f.name, qualities[q].resolution, f.type>>,
                 url |-> qualities[q].url,
                 subtitles |-> subtitles, referer |-> referer]]
        ELSE IF ~EmptyUrl(video.m3u8)
        THEN <<[quality |-> <<f.name, "Auto", f.type>>, url |-> video.m3u8,
                subtitles |-> subtitles, referer |-> referer]>>
        ELSE <<>>

\* a loop of extract that requests the playlists of all remaining items at once
RunExtractAhead(f) ==
    IF f.j > Len(f.result) THEN Step(Finish(f), <<>>)
    ELSE IF \E k \in f.j..Len(f.result) : SubtitlesRaise(f.result[k].tracks)
    THEN Step(Fail(f), <<>>)
    ELSE LET Playable(k) == ~EmptyUrl(f.result[k].m3u8)
             rest == {k \in f.j..Len(f.result) : Playable(k)}
             first == CHOOSE k \in rest : \A m \in rest : k <= m
             last == CHOOSE k \in rest : \A m \in rest : m <= k
         IN  IF rest = {} THEN Step(Finish(f), <<>>)
             ELSE Step([f EXCEPT !.pc = "playlist", !.j = first],
                       IF Len(f.resp) > 0 /\ f.resp[Len(f.resp)].kind = "playlist"
                       THEN <<>>
                       ELSE [k \in 1..(last - first + 1) |->
                                [kind |-> "playlist", item |-> first + k - 1,
                                 url |-> f.result[first + k - 1].m3u8]])

\* lines 47-78: the loop of extract from item f.j on, up to the next playlist
\* request or the return
RECURSIVE RunExtract(_)
RunExtract(f) ==
    IF f.j > Len(f.result) THEN Step(Finish(f), <<>>)
    ELSE LET video == f.result[f.j]
         IN  IF SubtitlesRaise(video.tracks) THEN Step(Fail(f), <<>>)
             ELSE IF EmptyUrl(video.m3u8)
             THEN RunExtract([f EXCEPT !.j = f.j + 1])
             ELSE Step([f EXCEPT !.pc = "playlist"],
                       <<[kind |-> "playlist", item |-> f.j, url |-> video.m3u8]>>)

\* lines 42-45: extract after _get_video_dto returned
EnterExtract(f) ==
    IF f.result = <<>> THEN Step(Finish(f), <<>>)
    ELSE RunExtract([f EXCEPT !.j = 1])

\* the condition of line 157 with `and` for `or`
UsedVerbatimBoth(encrypted, encoded) == encrypted = "false" /\ HasM3u8(encoded)

\* line 157: if not encrypted or ".m3u8" in encoded
UsedVerbatim(encrypted, encoded) == encrypted = "false" \/ HasM3u8(encoded)

\* a key kept on the extractor instance: a call that holds none takes the key
\* another call fetched
HeldKeyOfInstance(c, f) ==
    IF f.key # NoKey THEN f.key
    ELSE IF \E d \in Calls \ {c} : mc[d].key # NoKey
    THEN mc[CHOOSE d \in Calls \ {c} : mc[d].key # NoKey].key
    ELSE NoKey

\* lines 150, 161-162: `key` is a local of the call, None until the call fetched it
HeldKey(c, f) == f.key

\* lines 164-171: the decrypt request; quote() is the encoding of a value in the
\* query string, which the service decodes: the request is kept by its values
DecryptRequest(f, key) ==
    [kind |-> "decrypt", item |-> f.i, encrypted_data |-> f.data.sources[f.i],
     nonce |-> f.nonce, secret |-> key]

\* lines 154-186: the loop of _get_video_dto from item f.i on, up to the next
\* request or its return; `key` is the key the call holds
RECURSIVE RunDto(_, _)
RunDto(f, key) ==
    IF f.i > Len(f.data.sources) THEN EnterExtract(f)
    ELSE LET encoded == f.data.sources[f.i]
         IN  IF UsedVerbatim(f.data.encrypted, encoded)
             THEN RunDto([f EXCEPT !.i = f.i + 1,
                                   !.result = Append(f.result,
                                        [m3u8 |-> Verbatim(encoded, f.i),
                                         tracks |-> f.data.tracks])], key)
             ELSE IF key = NoKey
             THEN Step([f EXCEPT !.pc = "keys"], <<[kind |-> "keys"]>>)
             ELSE Step([f EXCEPT !.pc = "decrypt", !.key = key],
                       <<DecryptRequest(f, key)>>)

\* the response an awaited request of the call resolved to, kept in arrival order
Received(f, kind, r) == [f EXCEPT !.resp = Append(f.resp, [kind |-> kind, r |-> r])]

Commit(c, step) ==
    /\ mc' = [mc EXCEPT ![c] = step.frame]
    /\ wire' = [wire EXCEPT ![c] = wire[c] \o step.reqs]

\* extract(url, type, name) is called: lines 90-115, up to the embed page request
Begin(c) ==
    /\ mc[c].pc = "start"
    /\ \E url \in IF env.urls = "hosts" THEN HostUrls ELSE EmbedUrls,
          type \in {"sub"}, name \in {"HD-1"} :
        LET f == [mc[c] EXCEPT !.url = url, !.type = type, !.name = name]
        IN  Commit(c, IF ~url.marker \/ url.id = "" \/ url.host = ""
                      THEN Step(Fail(f), <<>>)
                      ELSE Step([f EXCEPT !.pc = "embed"], <<[kind |-> "embed"]>>))
    /\ UNCHANGED <<orchVars, tapeVars, apiVars, sessVars, registry, rotations, env>>

\* lines 115-137: the embed page arrives; the nonce; the sources request
EmbedResponse(c) ==
    /\ mc[c].pc = "embed"
    /\ \E r \in EmbedResponses :
        LET f == Received(mc[c], "embed", r)
            nonce == ExtractNonce(r.body)
        IN  Commit(c, IF ~r.ok THEN Step(Fail(f), <<>>)
                      ELSE IF nonce = NoNonce THEN Step(Fail(f), <<>>)
                      ELSE Step([f EXCEPT !.pc = "sources", !.nonce = nonce],
                                <<[kind |-> "sources", id |-> f.url.id, nonce |-> nonce]>>))
    /\ UNCHANGED <<orchVars, tapeVars, apiVars, sessVars, registry, rotations, env>>

\* lines 137-152: the sources response arrives and the loop over its items starts
SourcesResponse(c) ==
    /\ mc[c].pc = "sources"
    /\ \E r \in SourcesResponses :
        LET f == Received(mc[c], "sources", r)
        IN  Commit(c, IF ~r.ok THEN Step(Fail(f), <<>>)
                      ELSE IF ~r.json THEN Step(Fail(f), <<>>)
                      ELSE LET g == [f EXCEPT !.data = r.data, !.i = 1, !.key = NoKey]
                           IN  RunDto(g, HeldKey(c, g)))
    /\ UNCHANGED <<orchVars, tapeVars, apiVars, sessVars, registry, rotations, env>>

\* _request_new_key, lines 197-212, and the decrypt request of lines 164-171
KeysResponse(c) ==
    /\ mc[c].pc = "keys"
    /\ \E r \in KeysResponses :
        LET f == Received(mc[c], "keys", r)
        IN  Commit(c, IF ~r.ok THEN Step(Fail(f), <<>>)
                      ELSE IF r.status # 200 THEN Step(Fail(f), <<>>)
                      ELSE IF r.body # "json" THEN Step(Fail(f), <<>>)
                      ELSE IF r.mega = NoKey THEN Step(Fail(f), <<>>)
                      ELSE Step([f EXCEPT !.pc = "decrypt", !.key = r.mega],
                                <<DecryptRequest(f, r.mega)>>))
    /\ UNCHANGED <<orchVars, tapeVars, apiVars, sessVars, registry, rotations, env>>

\* lines 171-184: the decrypt response arrives; the loop goes on
DecryptResponse(c) ==
    /\ mc[c].pc = "decrypt"
    /\ \E r \in DecryptResponses(wire[c][Len(wire[c])]) :
        LET f == Received(mc[c], "decrypt", r)
        IN  Commit(c, IF ~r.ok THEN Step(Fail(f), <<>>)
                      ELSE IF ~r.file THEN Step(Fail(f), <<>>)
                      ELSE LET g == [f EXCEPT !.i = f.i + 1,
                                              !.result = Append(f.result,
                                                [m3u8 |-> r.url, tracks |-> f.data.tracks])]
                           IN  RunDto(g, HeldKey(c, g)))
    /\ UNCHANGED <<orchVars, tapeVars, apiVars, sessVars, registry, rotations, env>>

\* _extract_qualities, lines 229-262, and lines 61-76: the playlist arrives (or
\* its fetch fails, which gives no variant); the streams of the item; the loop
\* of extract goes on
PlaylistResponse(c) ==
    /\ mc[c].pc = "playlist"
    /\ \E r \in PlaylistResponses :
        LET f == Received(mc[c], "playlist", r)
            video == f.result[f.j]
            qualities == IF r.ok THEN ParseQualities(r.playlist, video.m3u8) ELSE <<>>
        IN  Commit(c, RunExtract([f EXCEPT !.j = f.j + 1,
                                           !.videos = f.videos \o StreamsOf(f, video, qualities)]))
    /\ UNCHANGED <<orchVars, tapeVars, apiVars, sessVars, registry, rotations, env>>

\* the registry publishes another key
RotateKey ==
    /\ rotations < MaxRotations
    /\ \E k \in Keys \ {registry} : registry' = k
    /\ rotations' = rotations + 1
    /\ UNCHANGED <<orchVars, tapeVars, apiVars, sessVars, mc, wire, env>>

MegaStep(c) ==
    \/ Begin(c)
    \/ EmbedResponse(c)
    \/ SourcesResponse(c)
    \/ KeysResponse(c)
    \/ DecryptResponse(c)
    \/ PlaylistResponse(c)

MegaNext == RotateKey \/ \E c \in Calls : MegaStep(c)

(***************************************************************************)
(* streamtape_extractor.py: StreamTapeExtractor.extract                    *)
(*                                                                         *)
(* A URL is kept as the list url.split("/") gives, which is never empty.   *)
(* A text is kept as the list of its non-empty pieces, "" being <<>>, and  *)
(* concatenation being \o.  A script is kept as whether it holds the       *)
(* robotlink line and as the places where one of the two patterns could    *)
(* match: innerHTML = '...' and + ('xcd...'), each with the text between   *)
(* the quotes (after xcd for the second), which may be empty.              *)
(***************************************************************************)
\* "https://streamtape.com/e/" ends in a slash: a URL starts with it exactly
\* when it has these four segments and a fifth
BasePrefix == <<"https:", "", "streamtape.com", "e">>

NoUrl == <<>>

\* line 40: len(parts) < 5; line 42: parts[4], the fifth segment
MinParts == 5

StartsWithBase(url) ==
    Len(url) > Len(BasePrefix) /\ SubSeq(url, 1, Len(BasePrefix)) = BasePrefix

\* a normalisation that takes the fourth segment as the video id
NormalizeFourthSegment(url) ==
    IF StartsWithBase(url) THEN url
    ELSE IF Len(url) < MinParts THEN NoUrl
    ELSE BasePrefix \o <<url[MinParts - 1]>>

\* lines 35-45: the URL that is fetched, NoUrl when extract returns None first
Normalize(url) ==
    IF StartsWithBase(url) THEN url
    ELSE IF Len(url) < MinParts THEN NoUrl
    ELSE BasePrefix \o <<url[MinParts]>>

Segments == {"https:", "", "streamtape.com", "e", "vid"}

\* every URL of up to MaxParts segments
AllTapeUrls == UNION {[1..n -> Segments] : n \in 1..MaxParts}

SampleTapeUrls ==
    {<<"https:", "", "streamtape.com", "e", "vid">>,
     <<"https:", "", "streamtape.com", "v", "vid", "file.mp4">>,
     <<"https:", "", "streamtape.com">>}

Assign(text) == [k |-> "assign", s |-> text]

Xcd(text) == [k |-> "xcd", s |-> text]

Places == {Assign(<<"A">>), Assign(<<"B">>), Assign(<<>>), Xcd(<<"C">>), Xcd(<<"D">>), Xcd(<<>>)}

\* a script element: does it hold document.getElementById('robotlink'), and its places
Script(robot, places) == [robot |-> robot, places |-> places]

\* every robotlink script of up to MaxPlaces places
AllRobotScripts ==
    {Script(TRUE, p) : p \in UNION {[1..n -> Places] : n \in 0..MaxPlaces}}

SampleRobotScripts ==
    {Script(TRUE, <<Assign(<<"A">>), Xcd(<<"C">>)>>),
     Script(TRUE, <<Assign(<<"A">>)>>),
     Script(TRUE, <<Xcd(<<"C">>)>>)}

\* a script without the robotlink line, in which both patterns would match
Decoy == Script(FALSE, <<Assign(<<"Z">>), Xcd(<<"Y">>)>>)

\* the pages: without script, with the decoy only, with a robotlink script, alone
\* or after the decoy
PagesOf(scripts) ==
    {<<>>, <<Decoy>>} \cup {<<sc>> : sc \in scripts} \cup {<<Decoy, sc>> : sc \in scripts}

TapeResponses ==
    {TransportError} \cup
    {[ok |-> TRUE, scripts |-> p] :
        p \in PagesOf(IF tape.mode = "pages" THEN AllRobotScripts ELSE SampleRobotScripts)}

NoScript == Script(FALSE, <<>>)

\* lines 62-65: the first script that holds the robotlink line
RECURSIVE RobotScript(_)
RobotScript(scripts) ==
    IF scripts = <<>> THEN NoScript
    ELSE IF Head(scripts).robot THEN Head(scripts)
    ELSE RobotScript(Tail(scripts))

\* re.search with a group ([^']+): the text of the first place of the kind whose
\* text is not empty, <<>> when the pattern matches nowhere
RECURSIVE Search(_, _)
Search(places, kind) ==
    IF places = <<>> THEN <<>>
    ELSE IF Head(places).k = kind /\ Head(places).s # <<>> THEN Head(places).s
    ELSE Search(Tail(places), kind)

\* line 74: innerHTML\s*=\s*'([^']+)'
Part1(script) == Search(script.places, "assign")

\* a second pattern whose group starts before xcd
Part2WithXcd(script) ==
    IF Search(script.places, "xcd") = <<>> THEN <<>>
    ELSE <<"xcd">> \o Search(script.places, "xcd")

\* lines 75, 81: \+\s*\('xcd([^']+)'\), the group being what follows xcd; "" when
\* there is no match
Part2(script) == Search(script.places, "xcd")

\* lines 56-93: what extract returns for a response
TapeResult(r, quality, subtitles) ==
    IF ~r.ok THEN None
    ELSE LET script_elem == RobotScript(r.scripts)
         IN  IF ~script_elem.robot THEN None
             ELSE IF Part1(script_elem) = <<>> THEN None
             ELSE [quality |-> quality,
                   url |-> <<"https:">> \o Part1(script_elem) \o Part2(script_elem),
                   subtitles |-> subtitles]

TapeIdle ==
    [mode |-> "off", pc |-> "idle", url |-> NoUrl, fetched |-> <<>>,
     page |-> None, ret |-> None]

\* extract(url, quality) is called: lines 33-53, up to the page request
TapeBegin ==
    /\ tape.pc = "start"
    /\ \E url \in IF tape.mode = "urls" THEN AllTapeUrls ELSE SampleTapeUrls :
        tape' = IF Normalize(url) = NoUrl
                THEN [tape EXCEPT !.url = url, !.pc = "done", !.ret = None]
                ELSE [tape EXCEPT !.url = url, !.pc = "page",
                                  !.fetched = Append(@, Normalize(url))]
    /\ UNCHANGED <<orchVars, megaVars, apiVars, sessVars>>

\* lines 53-93: the page arrives (or the request fails) and extract returns
TapeResponse ==
    /\ tape.pc = "page"
    /\ \E r \in TapeResponses :
        tape' = [tape EXCEPT !.page = r, !.pc = "done",
                             !.ret = TapeResult(r, <<"Streamtape - ", "sub">>, <<>>)]
    /\ UNCHANGED <<orchVars, megaVars, apiVars, sessVars>>

TapeNext == TapeBegin \/ TapeResponse

\* no StreamTape call is running
TapeInert == tape = TapeIdle

(***************************************************************************)
(* app.py: the listing endpoints /search, /popular, /latest,               *)
(* /episodes/{anime_id} and /servers/{episode_id}                          *)
(*                                                                         *)
(* Each handler awaits one core call and maps its result to a status.  The *)
(* core is any object with these methods, as the endpoint tests patch it:  *)
(* the result is drawn from the results a core may hand back.              *)
(***************************************************************************)
\* "invalid" in error_msg.lower(), the error text being kept as its pieces
ContainsInvalid(error) ==
    \E i \in 1..Len(error) : Lower(error[i]) = "invalid"

\* the mapping with "not found" tested before "invalid"
ErrorStatusNotFoundFirst(error_msg) ==
    IF ContainsNotFound(error_msg) THEN 404
    ELSE IF ContainsInvalid(error_msg) THEN 400
    ELSE 503

\* lines 97-102 and 113-118: the status for an error text
ErrorStatus(error_msg) ==
    IF ContainsInvalid(error_msg) THEN 400
    ELSE IF ContainsNotFound(error_msg) THEN 404
    ELSE 503

\* an answer: the status and, with 200, the body
Answer(status, body) == [status |-> status, body |-> body]

\* episodes, lines 95-105
EpisodesResponse(result) ==
    IF TruthySeq(Get(result, "error")) THEN Answer(ErrorStatus(result.error), None)
    ELSE IF ~TruthySeq(Get(result, "episodes")) THEN Answer(404, None)
    ELSE Answer(200, result)

\* line 121: any(all_servers.get(t) for t in VALID_TYPES)
HasServers(all_servers) ==
    \E t \in VALID_TYPES : t \in DOMAIN all_servers /\ all_servers[t] # <<>>

\* servers, lines 111-124; result.get("servers", {}) is the empty mapping when
\* the key is missing
ServersResponse(result) ==
    IF TruthySeq(Get(result, "error")) THEN Answer(ErrorStatus(result.error), None)
    ELSE IF "servers" \notin DOMAIN result THEN Answer(404, None)
    ELSE IF ~HasServers(result.servers) THEN Answer(404, None)
    ELSE Answer(200, result)

\* a listing handler that maps the error text as /episodes does
ListingResponseByText(result) ==
    IF TruthySeq(Get(result, "error")) THEN Answer(ErrorStatus(result.error), None)
    ELSE IF ~TruthySeq(Get(result, "results")) THEN Answer(404, None)
    ELSE Answer(200, result)

\* search, popular and latest, lines 50-55, 61-66 and 72-77: the same three steps
ListingResponse(result) ==
    IF TruthySeq(Get(result, "error")) THEN Answer(503, None)
    ELSE IF ~TruthySeq(Get(result, "results")) THEN Answer(404, None)
    ELSE Answer(200, result)

\* error texts a core may report, as their pieces
ErrorTexts ==
    {<<"Invalid", " anime ID">>,
     <<"Anime ", "not found">>,
     <<"Episode ", "Not Found">>,
     <<"INVALID", " id: ", "not found">>,
     <<"Service unavailable">>,
     <<"Connection timeout">>}

\* the `error` of a result: the key missing, an empty text, or a text
ErrorParts ==
    {[k \in {} |-> <<>>], [error |-> <<>>]} \cup {[error |-> t] : t \in ErrorTexts}

\* the rest of a result whose list is under `key`: the key missing, the list
\* empty, one entry, two entries
ListParts(key) ==
    {[total |-> <<"0">>]} \cup
    {[k \in {key} |-> l] : l \in {<<>>, <<"a">>, <<"a", "b">>}}

\* the rest of a result of get_episode_servers: the key missing, no bucket,
\* four empty buckets, a hoster under sub, one under mixed only, one under a
\* bucket that is none of the four
ServerParts ==
    {[episode_id |-> <<"ep">>],
     [servers |-> [b \in {} |-> <<>>]],
     [servers |-> [b \in BucketSet |-> <<>>]],
     [servers |-> [b \in BucketSet |-> IF b = "sub" THEN <<"HD-1">> ELSE <<>>]],
     [servers |-> [b \in BucketSet |-> IF b = "mixed" THEN <<"HD-1">> ELSE <<>>]],
     [servers |-> [b \in {"other"} |-> <<"HD-1">>]]}

\* the results a core may return to the handler of an endpoint
ApiResults(endpoint) ==
    {e @@ r : e \in ErrorParts,
              r \in IF endpoint = "servers" THEN ServerParts
                    ELSE IF endpoint = "episodes" THEN ListParts("episodes")
                    ELSE ListParts("results")}

Endpoints == {"search", "popular", "latest", "episodes", "servers"}

ApiIdle ==
    [endpoint |-> "none", pc |-> "idle", result |-> None, status |-> 0, body |-> None]

\* the handler of `endpoint` runs: the core call returns `result`, mapped by `Response`
Handle(endpoint, result, answer) ==
    /\ api.pc = "called" /\ api.endpoint = endpoint
    /\ api' = [api EXCEPT !.pc = "done", !.result = result,
                          !.status = answer.status, !.body = answer.body]
    /\ UNCHANGED <<orchVars, megaVars, tapeVars, sessVars>>

search == \E result \in ApiResults("search") : Handle("search", result, ListingResponse(result))

popular == \E result \in ApiResults("popular") : Handle("popular", result, ListingResponse(result))

latest == \E result \in ApiResults("latest") : Handle("latest", result, ListingResponse(result))

episodes ==
    \E result \in ApiResults("episodes") : Handle("episodes", result, EpisodesResponse(result))

servers ==
    \E result \in ApiResults("servers") : Handle("servers", result, ServersResponse(result))

ApiNext == search \/ popular \/ latest \/ episodes \/ servers

\* no listing endpoint is handling a request
ApiInert == api = ApiIdle

(***************************************************************************)
(* The HTTP sessions of the three actors: the site client (hianime.py),    *)
(* the MegaCloud extractor and the StreamTape extractor.                   *)
(*                                                                         *)
(* A session is the number under which its actor created it. A request is  *)
(* kept with the session it was sent on; aiohttp refuses a request on a    *)
(* closed session with RuntimeError("Session is closed").                  *)
(***************************************************************************)
Actors == {"site", "megacloud", "streamtape"}

\* self._session = None
NoSession == 0

\* an actor after __init__: its _session, how many sessions it created, which of
\* them are closed, and the requests it sent
ActorIdle == [session |-> NoSession, created |-> 0, closed |-> {}, requests |-> <<>>]

\* the sessions of actor a that are open
OpenSessions(a) == (1..a.created) \ a.closed

\* self._session is None or self._session.closed
NoneOrClosed(a) == a.session = NoSession \/ a.session \in a.closed

\* _get_session: the actor after the call; its .session is the session returned
GetSession(a) ==
    IF NoneOrClosed(a)
    THEN [a EXCEPT !.session = a.created + 1, !.created = a.created + 1]
    ELSE a

\* session.get(...) on session s
Send(a, kind, s) ==
    [a EXCEPT !.requests = Append(@, [kind |-> kind, on |-> s, refused |-> s \in a.closed])]

\* close of an actor: if self._session and not self._session.closed: close it
CloseSession(a) ==
    IF ~NoneOrClosed(a) THEN [a EXCEPT !.closed = @ \cup {a.session}] ELSE a

\* _get_video_dto is not running
DtoIdle == [pc |-> "idle", session |-> NoSession]

\* the order in which HiAnime.close closes the actors
CloseOrder == <<"site", "megacloud", "streamtape">>

SessIdle == [actor |-> [a \in Actors |-> ActorIdle], dto |-> DtoIdle, closing |-> 0]

CanSend(a) == Len(sess.actor[a].requests) < MaxRequests

\* HiAnime._fetch and _fetch_json: the session is taken right before the request
SiteFetch ==
    /\ CanSend("site")
    /\ LET a == GetSession(sess.actor["site"])
       IN  sess' = [sess EXCEPT !.actor["site"] = Send(a, "fetch", a.session)]
    /\ UNCHANGED <<orchVars, megaVars, tapeVars, apiVars>>

\* StreamTapeExtractor.extract lines 47-53: the session is taken right before
\* the request
TapeFetch ==
    /\ CanSend("streamtape")
    /\ LET a == GetSession(sess.actor["streamtape"])
       IN  sess' = [sess EXCEPT !.actor["streamtape"] = Send(a, "page", a.session)]
    /\ UNCHANGED <<orchVars, megaVars, tapeVars, apiVars>>

\* a request of _get_video_dto on its local `session`; a refused request raises
\* and extract returns
DtoSend(kind) ==
    LET a == Send(sess.actor["megacloud"], kind, sess.dto.session)
    IN  sess' = [sess EXCEPT !.actor["megacloud"] = a,
                             !.dto = IF sess.dto.session \in a.closed THEN DtoIdle
                                     ELSE [@ EXCEPT !.pc = kind]]

\* _get_video_dto lines 112-115: session = await self._get_session(), kept in a
\* local for the whole call, and the embed page request
DtoEmbed ==
    /\ sess.dto.pc = "idle"
    /\ CanSend("megacloud")
    /\ LET a == GetSession(sess.actor["megacloud"])
       IN  sess' = [sess EXCEPT !.actor["megacloud"] = Send(a, "embed", a.session),
                                !.dto = [pc |-> "embed", session |-> a.session]]
    /\ UNCHANGED <<orchVars, megaVars, tapeVars, apiVars>>

\* line 137: the sources request, on the local `session`
DtoSources ==
    /\ sess.dto.pc = "embed"
    /\ CanSend("megacloud")
    /\ DtoSend("sources")
    /\ UNCHANGED <<orchVars, megaVars, tapeVars, apiVars>>

\* _request_new_key lines 193-197: a session of its own call to _get_session
RequestNewKey ==
    /\ sess.dto.pc = "sources"
    /\ CanSend("megacloud")
    /\ LET a == GetSession(sess.actor["megacloud"])
       IN  sess' = [sess EXCEPT !.actor["megacloud"] = Send(a, "keys", a.session),
                                !.dto.pc = "keys"]
    /\ UNCHANGED <<orchVars, megaVars, tapeVars, apiVars>>

\* line 171: a decrypt request, on the local `session`
DtoDecrypt ==
    /\ sess.dto.pc \in {"keys", "decrypt"}
    /\ CanSend("megacloud")
    /\ DtoSend("decrypt")
    /\ UNCHANGED <<orchVars, megaVars, tapeVars, apiVars>>

\* _extract_qualities lines 221-230: a session of its own call to _get_session
ExtractQualities ==
    /\ sess.dto.pc \in {"sources", "decrypt", "playlist"}
    /\ CanSend("megacloud")
    /\ LET a == GetSession(sess.actor["megacloud"])
       IN  sess' = [sess EXCEPT !.actor["megacloud"] = Send(a, "playlist", a.session),
                                !.dto.pc = "playlist"]
    /\ UNCHANGED <<orchVars, megaVars, tapeVars, apiVars>>

\* extract returns: a response failed or the loops ended
ExtractReturn ==
    /\ sess.dto.pc # "idle"
    /\ sess' = [sess EXCEPT !.dto = DtoIdle]
    /\ UNCHANGED <<orchVars, megaVars, tapeVars, apiVars>>

\* MegaCloudExtractor.close and StreamTapeExtractor.close
ExtractorClose(a) ==
    /\ sess' = [sess EXCEPT !.actor[a] = CloseSession(@)]
    /\ UNCHANGED <<orchVars, megaVars, tapeVars, apiVars>>

\* HiAnime.close lines 460-464: its own session, then either extractor's close,
\* one awaited after the other
HiAnimeClose ==
    /\ sess' = [sess EXCEPT !.actor[CloseOrder[sess.closing + 1]] = CloseSession(@),
                            !.closing = (@ + 1) % Len(CloseOrder)]
    /\ UNCHANGED <<orchVars, megaVars, tapeVars, apiVars>>

SessNext ==
    \/ SiteFetch
    \/ TapeFetch
    \/ DtoEmbed
    \/ DtoSources
    \/ RequestNewKey
    \/ DtoDecrypt
    \/ ExtractQualities
    \/ ExtractReturn
    \/ \E a \in {"megacloud", "streamtape"} : ExtractorClose(a)
    \/ HiAnimeClose

SessInert == sess = SessIdle

\* no extract call is running
MegaInert ==
    /\ mc = [c \in Calls |-> MegaIdle]
    /\ registry = "k1"
    /\ rotations = 0
    /\ wire = [c \in Calls |-> <<>>]
    /\ env = [bodies |-> "sample", sources |-> "sample", playlists |-> "sample", urls |-> "sample"]

OrchInert ==
    /\ site = [b \in BucketSet |-> <<>>]
    /\ gv = [c \in Calls |-> IdleFrame]

MegaInit(active, e) ==
    /\ OrchInert
    /\ TapeInert
    /\ ApiInert
    /\ SessInert
    /\ mc = [c \in Calls |-> IF c \in active THEN [MegaIdle EXCEPT !.pc = "start"]
                             ELSE MegaIdle]
    /\ registry \in Keys
    /\ rotations = 0
    /\ wire = [c \in Calls |-> <<>>]
    /\ env = e

\* one extract call, every sources response up to MaxSources items
InitOne == MegaInit({1}, [bodies |-> "sample", sources |-> "all", playlists |-> "sample", urls |-> "sample"])

SpecOne == InitOne /\ [][MegaNext]_vars

\* two extract calls on the same extractor, interleaved
InitMega == MegaInit(Calls, [bodies |-> "sample", sources |-> "sample", playlists |-> "sample", urls |-> "sample"])

SpecMega == InitMega /\ [][MegaNext]_vars

\* one extract call, every embed page body up to MaxSegs runs
InitNonce == MegaInit({1}, [bodies |-> "all", sources |-> "sample", playlists |-> "sample", urls |-> "sample"])

SpecNonce == InitNonce /\ [][MegaNext]_vars

\* one extract call on a single encrypted item, every playlist text up to
\* MaxLines lines
InitPlaylist ==
    MegaInit({1}, [bodies |-> "sample", sources |-> "single", playlists |-> "all", urls |-> "sample"])

SpecPlaylist == InitPlaylist /\ [][MegaNext]_vars

\* one extract call, the embed URL on one of two hosts
InitHosts ==
    MegaInit({1}, [bodies |-> "sample", sources |-> "sample", playlists |-> "sample",
                   urls |-> "hosts"])

SpecHosts == InitHosts /\ [][MegaNext]_vars

TapeInit(mode) ==
    /\ OrchInert
    /\ MegaInert
    /\ ApiInert
    /\ SessInert
    /\ tape = [TapeIdle EXCEPT !.mode = mode, !.pc = "start"]

\* one StreamTape extract call over every URL of up to MaxParts segments
InitTapeUrl == TapeInit("urls")

SpecTapeUrl == InitTapeUrl /\ [][TapeNext]_vars

\* one StreamTape extract call over every robotlink script of up to MaxPlaces places
InitTapePage == TapeInit("pages")

SpecTapePage == InitTapePage /\ [][TapeNext]_vars

\* results a core may hand to /watch: the two error results of get_video, other
\* error texts with and without "not found" in some letter case, a falsy error,
\* and results without error
CoreResults(server, type) ==
    {ServerNotFound(server, type, [b \in BucketSet |-> <<>>]),
     SourceLinkMissing,
     [error |-> <<"Server ", "not found">>],
     [error |-> <<"Episode 3 ", "Not Found">>],
     [error |-> <<"NOT FOUND">>],
     [error |-> <<"Bad request error">>],
     [error |-> <<>>, videos |-> <<>>],
     Envelope(server, type, LinkOf(<<type, 1>>), <<>>),
     Envelope(server, type, LinkOf(<<type, 1>>), <<MegaStream("Auto", type, server)>>)}

\* /watch with valid parameters, get_video having returned
InitWatch ==
    /\ site = [b \in BucketSet |-> <<>>]
    /\ \E server \in VALID_SERVERS, type \in VALID_TYPES :
        \E result \in CoreResults(server, type) :
            gv = [c \in Calls |->
                    IF c = 1
                    THEN [StartFrame("watch", server, type) EXCEPT
                            !.pc = "respond", !.result = result]
                    ELSE IdleFrame]
    /\ MegaInert
    /\ TapeInert
    /\ ApiInert
    /\ SessInert

WatchNext == \E c \in Calls : WatchRespond(c)

SpecWatch == InitWatch /\ [][WatchNext]_vars

\* one request to one of the listing endpoints
InitApi ==
    /\ OrchInert
    /\ MegaInert
    /\ TapeInert
    /\ SessInert
    /\ \E endpoint \in Endpoints : api = [ApiIdle EXCEPT !.endpoint = endpoint, !.pc = "called"]

SpecApi == InitApi /\ [][ApiNext]_vars

\* requests and close calls of the three actors, in any order
InitSessions ==
    /\ OrchInert
    /\ MegaInert
    /\ TapeInert
    /\ ApiInert
    /\ SessInert

SpecSessions == InitSessions /\ [][SessNext]_vars

\* one step of get_video
GetVideoStep(c) ==
    \/ FetchServers(c)
    \/ FindTarget(c)
    \/ FetchSourceLink(c)
    \/ Dispatch(c)

OrchNext ==
    \E c \in Calls :
        \/ WatchValidate(c)
        \/ GetVideoStep(c)
        \/ WatchRespond(c)

PairNext == \E c \in Calls : GetVideoStep(c)

\* one call: get_video called directly or through /watch
Init ==
    /\ site \in Listings
    /\ \E caller \in {"lib", "watch"}, server \in ServerArgs, type \in TypeArgs :
        gv = [c \in Calls |-> IF c = 1 THEN StartFrame(caller, server, type) ELSE IdleFrame]
    /\ MegaInert
    /\ TapeInert
    /\ ApiInert
    /\ SessInert

Spec == Init /\ [][OrchNext]_vars

\* two direct calls for the same episode and type whose server arguments are
\* letter-case variants of each other
InitPair ==
    /\ site \in Listings
    /\ \E s1 \in ServerArgs, s2 \in ServerArgs, type \in TypeArgs :
        /\ Lower(s1) = Lower(s2)
        /\ gv = [c \in Calls |-> StartFrame("lib", IF c = 1 THEN s1 ELSE s2, type)]
    /\ MegaInert
    /\ TapeInert
    /\ ApiInert
    /\ SessInert

SpecPair == InitPair /\ [][PairNext]_vars

(***************************************************************************)
(* Claims about get_video and /watch                                       *)
(***************************************************************************)
\* the lookup of lines 375-392 has run in frame f
PastFind(f) == f.servers_data # None /\ f.pc # "find"

\* the items of section b the site lists under a known name matching `server`
Listed(b, server) ==
    {i \in 1..Len(site[b]) :
        site[b][i].name \in HOSTER_NAMES /\ Lower(site[b][i].name) = Lower(server)}

OnlyUnderMixed(server) ==
    /\ Listed("mixed", server) # {}
    /\ \A b \in BucketSet \ {"mixed"} : Listed(b, server) = {}

FirstListed(b, server) ==
    site[b][CHOOSE i \in Listed(b, server) : \A j \in Listed(b, server) : i <= j]

\* C1: a server name the site lists only under `mixed`, requested with type
\* `dub`, is found by the fallback scan: the call goes on with that hoster's id
\* and the effective type is `mixed`.
C1_FallbackFindsMixed ==
    \A c \in Calls :
        LET f == gv[c]
        IN  (PastFind(f) /\ f.req_type = "dub" /\ OnlyUnderMixed(f.server))
                => /\ f.target_server # None
                   /\ f.target_server.id = FirstListed("mixed", f.server).id
                   /\ f.type = "mixed"

\* the two calls got the same answers from the services wherever both asked
SameAnswers(f, g) ==
    /\ f.raised = "" /\ g.raised = ""
    /\ f.source_link = g.source_link
    /\ (f.resolver # "none" /\ g.resolver # "none") => f.resolver_out = g.resolver_out

\* C2: two finished calls for the same episode and type whose server arguments
\* differ only in letter case, answered alike by the services, selected the same
\* hoster, invoked the same resolver and return the same videos.
C2_CaseInsensitive ==
    \A c \in Calls, d \in Calls :
        LET f == gv[c]
            g == gv[d]
        IN  (/\ f.pc = "done" /\ g.pc = "done"
             /\ Lower(f.server) = Lower(g.server)
             /\ f.req_type = g.req_type
             /\ SameAnswers(f, g))
                => /\ f.target_server = g.target_server
                   /\ f.resolver = g.resolver
                   /\ f.videos = g.videos

\* C3: a ServerNotFound result carries every known hoster the site lists, in all
\* four buckets.
C3_FullMappingOnNotFound ==
    \A c \in Calls :
        LET r == gv[c].result
        IN  "available_servers" \in DOMAIN r
                => \A b \in BucketSet : \A i \in 1..Len(site[b]) :
                        site[b][i].name \in HOSTER_NAMES
                            => \E j \in 1..Len(r.available_servers[b]) :
                                    r.available_servers[b][j].id = site[b][i].id

\* C4: a call whose AJAX request failed (transport error or rejected status)
\* ends by returning an error value; no exception leaves the operation.
C4_UpstreamUnavailableReturned ==
    \A c \in Calls :
        LET f == gv[c]
        IN  (f.pc = "done" /\ f.ajax \in {"transport_error", "bad_status"})
                => f.raised = "" /\ "error" \in DOMAIN f.result

\* the resolver invocations of a call
ResolverCalls(f) ==
    LET IsResolver(e) == e \in {"megacloud", "streamtape"}
    IN  SelectSeq(f.trace, IsResolver)

\* C5: once a hoster is selected and a non-empty source link obtained, the call
\* invokes exactly one resolver, the one of the hoster's name.
C5_ExactlyOneResolver ==
    \A c \in Calls :
        LET f == gv[c]
        IN  (f.pc \in {"respond", "done"} /\ f.target_server # None
                                          /\ TruthySeq(f.source_link))
                => ResolverCalls(f) =
                        IF f.target_server.name = "StreamTape" THEN <<"streamtape">>
                        ELSE <<"megacloud">>

\* C6: when the invoked resolver yields no stream, get_video returns the envelope
\* with empty `videos` and no `error` key, and /watch answers 404 for an envelope
\* with empty `videos`.
C6_NoStreamsNotAnError ==
    \A c \in Calls :
        LET f == gv[c]
        IN  /\ (f.resolver # "none" /\ f.resolver_out = <<>>)
                => /\ "videos" \in DOMAIN f.result
                   /\ f.result.videos = <<>>
                   /\ "error" \notin DOMAIN f.result
            /\ (f.caller = "watch" /\ f.pc = "done" /\ "videos" \in DOMAIN f.result
                                   /\ f.result.videos = <<>>)
                => f.status = 404

C6_Witness ==
    \E c \in Calls :
        /\ gv[c].caller = "watch" /\ gv[c].pc = "done"
        /\ gv[c].resolver = "megacloud" /\ gv[c].resolver_out = <<>>
        /\ gv[c].status = 404

(***************************************************************************)
(* Claims about MegaCloudExtractor.extract                                 *)
(***************************************************************************)
\* the requests of one kind a call has sent
Sent(c, kind) ==
    LET OfKind(r) == r.kind = kind
    IN  SelectSeq(wire[c], OfKind)

\* the responses of one kind a call has received
Got(c, kind) ==
    LET OfKind(e) == e.kind = kind
        es == SelectSeq(mc[c].resp, OfKind)
    IN  [k \in 1..Len(es) |-> es[k].r]

\* a response of the key registry that _request_new_key accepts
GoodKey(r) == r.ok /\ r.status = 200 /\ r.body = "json" /\ r.mega # NoKey

\* the alphanumeric runs of n characters of a body, and those no word character touches
RunsOf(b, n) == {i \in 1..Len(b) : b[i].cls = "alnum" /\ b[i].len = n}

BoundedRunsOf(b, n) ==
    {i \in RunsOf(b, n) :
        /\ i > 1 => b[i - 1].cls = "sep"
        /\ i < Len(b) => b[i + 1].cls = "sep"}

FirstThree(S) ==
    LET g1 == Least(S)
        g2 == Least(S \ {g1})
        g3 == Least(S \ {g1, g2})
    IN  <<g1, g2, g3>>

\* a failure of the resolution chain of call c: the URL without its marker, its
\* video id or its host, a
\* transport error of the embed, sources, registry or decrypt request, a body
\* without nonce, a sources body that is no JSON, a registry answer that gives
\* no key, a decrypt answer without "file"
ChainFailure(c) ==
    \/ /\ mc[c].pc \notin {"idle", "start"}
       /\ (~mc[c].url.marker \/ mc[c].url.id = "" \/ mc[c].url.host = "")
    \/ \E kind \in {"embed", "sources", "keys", "decrypt"} :
            \E k \in 1..Len(Got(c, kind)) : ~Got(c, kind)[k].ok
    \/ \E k \in 1..Len(Got(c, "embed")) :
            Got(c, "embed")[k].ok /\ ExtractNonce(Got(c, "embed")[k].body) = NoNonce
    \/ \E k \in 1..Len(Got(c, "sources")) :
            Got(c, "sources")[k].ok /\ ~Got(c, "sources")[k].json
    \/ \E k \in 1..Len(Got(c, "keys")) :
            Got(c, "keys")[k].ok /\ ~GoodKey(Got(c, "keys")[k])
    \/ \E k \in 1..Len(Got(c, "decrypt")) :
            Got(c, "decrypt")[k].ok /\ ~Got(c, "decrypt")[k].file

\* the same, a failed playlist fetch counted as well
AnyStepFailure(c) ==
    \/ ChainFailure(c)
    \/ \E k \in 1..Len(Got(c, "playlist")) : ~Got(c, "playlist")[k].ok

\* C7 as stated: extract never raises, and a failure at any step, a transport
\* error of any request included, makes the call return the empty list.
C7_AnyFailureGivesEmpty ==
    \A c \in Calls :
        /\ ~mc[c].raised
        /\ (mc[c].pc = "done" /\ AnyStepFailure(c)) => mc[c].ret = <<>>

\* C7 amended: extract never raises, and a failure of the resolution chain
\* (marker, nonce, sources JSON, key registry, decrypt answer, a transport error
\* of one of these requests) ends the call at once with the empty list, also when
\* earlier items were resolved; a failed playlist fetch is not such a failure.
C7_ChainFailureGivesEmpty ==
    \A c \in Calls :
        /\ ~mc[c].raised
        /\ ChainFailure(c) => mc[c].pc = "done" /\ mc[c].ret = <<>>

C7_Witness ==
    \E c \in Calls :
        /\ mc[c].pc = "done" /\ mc[c].ret = <<>>
        /\ Len(mc[c].result) >= 1
        /\ \E k \in 1..Len(Got(c, "decrypt")) :
                Got(c, "decrypt")[k].ok /\ ~Got(c, "decrypt")[k].file

\* C8: a call fetches the key registry at most once, and the secret of each of
\* its decrypt requests is the key the registry gave to that very call.
C8_KeyScopedToCall ==
    \A c \in Calls :
        /\ Len(Sent(c, "keys")) <= 1
        /\ \A k \in 1..Len(Sent(c, "decrypt")) :
                /\ Len(Got(c, "keys")) = 1
                /\ GoodKey(Got(c, "keys")[1])
                /\ Sent(c, "decrypt")[k].secret = Got(c, "keys")[1].mega

C8_Witness ==
    \E c \in Calls, d \in Calls :
        /\ Len(Sent(c, "decrypt")) = 2
        /\ Len(Sent(d, "decrypt")) >= 1
        /\ Sent(c, "decrypt")[2].secret # Sent(d, "decrypt")[1].secret

\* item k of the sources response of call c may be used as it is
PlainItem(c, k) ==
    mc[c].data.encrypted = "false" \/ HasM3u8(mc[c].data.sources[k])

DecryptsOf(c, k) ==
    {n \in 1..Len(Sent(c, "decrypt")) : Sent(c, "decrypt")[n].item = k}

\* C9: an item is used verbatim, without a decrypt request, exactly when the
\* response's encrypted flag is false or its payload contains .m3u8; any other
\* item is resolved through one decrypt request; a response none of whose items
\* needs decryption never makes the call contact the key registry.
C9_VerbatimOrDecrypt ==
    \A c \in Calls :
        mc[c].data # None =>
            /\ \A k \in 1..Len(mc[c].result) :
                IF PlainItem(c, k)
                THEN /\ mc[c].result[k].m3u8 = Verbatim(mc[c].data.sources[k], k)
                     /\ DecryptsOf(c, k) = {}
                ELSE /\ Cardinality(DecryptsOf(c, k)) = 1
                     /\ mc[c].result[k].m3u8 \in
                            {[how |-> "empty"],
                             [how |-> "decrypted", item |-> k, secret |-> mc[c].key]}
            /\ \A k \in 1..Len(mc[c].data.sources) :
                PlainItem(c, k) => DecryptsOf(c, k) = {}
            /\ (\A k \in 1..Len(mc[c].data.sources) : PlainItem(c, k))
                => Sent(c, "keys") = <<>>

C9_Witness ==
    \E c \in Calls :
        /\ mc[c].pc = "done" /\ Len(mc[c].result) = 2
        /\ mc[c].data.encrypted = "absent"
        /\ mc[c].result[1].m3u8.how = "verbatim"
        /\ mc[c].result[2].m3u8.how = "decrypted"
        /\ mc[c].ret # <<>>

\* what C10 says of a body b received by call c, the runs being those of `runs`
NonceAsClaimed(c, b, r48, r16) ==
    IF r48 # {} THEN mc[c].nonce = <<Least(r48)>>
    ELSE IF Cardinality(r16) >= 3 THEN mc[c].nonce = FirstThree(r16)
    ELSE /\ mc[c].nonce = NoNonce
         /\ Sent(c, "sources") = <<>>
         /\ mc[c].pc = "done" /\ mc[c].ret = <<>>

\* C10 as stated: a body with a 48 character alphanumeric run has its first such
\* run as nonce; else one with three 16 character runs has their concatenation;
\* else the call fails without a sources request and returns the empty list.
C10_NonceOfAnyRun ==
    \A c \in Calls :
        \A k \in 1..Len(Got(c, "embed")) :
            Got(c, "embed")[k].ok =>
                LET b == Got(c, "embed")[k].body
                IN  NonceAsClaimed(c, b, RunsOf(b, NonceLen), RunsOf(b, PartLen))

\* C10 amended: the same of the runs no word character (a letter, a digit, an
\* underscore) touches on either side; a run touching one is not seen.
C10_NonceOfBoundedRun ==
    \A c \in Calls :
        \A k \in 1..Len(Got(c, "embed")) :
            Got(c, "embed")[k].ok =>
                LET b == Got(c, "embed")[k].body
                IN  NonceAsClaimed(c, b, BoundedRunsOf(b, NonceLen),
                                   BoundedRunsOf(b, PartLen))

C10_Witness ==
    \E c \in Calls :
        /\ Len(mc[c].nonce) = 3
        /\ Len(Sent(c, "sources")) = 1
        /\ Sent(c, "sources")[1].nonce = <<1, 3, 5>>

(***************************************************************************)
(* Claims about the streams MegaCloudExtractor.extract emits               *)
(***************************************************************************)
\* call c receives the answer to a playlist request in this step
PlaylistArrives(c) == mc[c].pc = "playlist" /\ mc'[c] # mc[c]

\* the response that arrived last at call c, after the step
Arrived(c) == mc'[c].resp[Len(mc'[c].resp)].r

\* the streams the step appended to the videos of call c
Emitted(c) ==
    SubSeq(mc'[c].videos, Len(mc[c].videos) + 1, Len(mc'[c].videos))

\* the variants the expansion of the arrived playlist yields for item `video`
Expansion(c, video) ==
    IF Arrived(c).ok THEN ParseQualities(Arrived(c).playlist, video.m3u8) ELSE <<>>

\* C11: when the playlist of an item with a non-empty playable URL arrives (or
\* its fetch fails) and its expansion yields no variant, exactly one stream is
\* emitted for the item, labeled <hoster> - Auto - <type> and pointing at the
\* item's playable URL; when it yields a variant, no Auto stream is emitted.
C11_AutoIffNoVariant ==
    [][\A c \in Calls :
        PlaylistArrives(c) =>
            LET video == mc[c].result[mc[c].j]
            IN  /\ ~EmptyUrl(video.m3u8)
                /\ Len(mc'[c].videos) >= Len(mc[c].videos)
                /\ SubSeq(mc'[c].videos, 1, Len(mc[c].videos)) = mc[c].videos
                /\ IF Expansion(c, video) = <<>>
                   THEN /\ Len(Emitted(c)) = 1
                        /\ Emitted(c)[1].quality = <<mc[c].name, "Auto", mc[c].type>>
                        /\ Emitted(c)[1].url = video.m3u8
                   ELSE /\ Len(Emitted(c)) = Len(Expansion(c, video))
                        /\ \A k \in 1..Len(Emitted(c)) :
                                Emitted(c)[k].quality[2] # "Auto"]_vars

C11_Witness ==
    \E c \in Calls :
        /\ mc[c].pc = "done" /\ Len(mc[c].result) = 2
        /\ Len(Got(c, "playlist")) = 2
        /\ ~Got(c, "playlist")[1].ok
        /\ Got(c, "playlist")[2].ok
        /\ ParseQualities(Got(c, "playlist")[2].playlist, mc[c].result[2].m3u8) # <<>>
        /\ mc[c].ret[1].quality = <<"HD-1", "Auto", "sub">>
        /\ Len(mc[c].ret) >= 2
        /\ \A k \in 2..Len(mc[c].ret) : mc[c].ret[k].quality[2] # "Auto"

\* the marker lines of a playlist text that a URL line follows, in document order
RECURSIVE InOrder(_)
InOrder(S) == IF S = {} THEN <<>> ELSE <<Least(S)>> \o InOrder(S \ {Least(S)})

MarkersWithUrl(pl) ==
    InOrder({i \in 1..(Len(pl) - 1) : pl[i].k = "inf" /\ pl[i + 1].k = "url"})

\* C12: a playlist text with N stream-info lines each followed by a URL line
\* gives exactly N variants, in the order of the playlist, each labeled with the
\* RESOLUTION value of its marker line, or Unknown when the line has none.
C12_OneVariantPerMarker ==
    [][\A c \in Calls :
        (PlaylistArrives(c) /\ Arrived(c).ok) =>
            LET pl == Arrived(c).playlist
                ms == MarkersWithUrl(pl)
                video == mc[c].result[mc[c].j]
            IN  /\ Len(Expansion(c, video)) = Len(ms)
                /\ Len(ms) > 0 =>
                    /\ Len(Emitted(c)) = Len(ms)
                    /\ \A k \in 1..Len(ms) :
                        /\ Emitted(c)[k].quality[2] =
                                IF pl[ms[k]].res = "" THEN "Unknown" ELSE pl[ms[k]].res
                        /\ Emitted(c)[k].url.n = pl[ms[k] + 1].n
                        /\ Emitted(c)[k].url.abs = pl[ms[k] + 1].abs]_vars

C12_Witness ==
    \E c \in Calls :
        /\ mc[c].pc = "done" /\ Len(Got(c, "playlist")) = 1
        /\ Got(c, "playlist")[1].ok
        /\ Got(c, "playlist")[1].playlist =
                <<Inf(""), UrlLine(2, TRUE), Inf("1280x720"), UrlLine(1, FALSE)>>
        /\ Len(mc[c].ret) = 2
        /\ mc[c].ret[1].quality = <<"HD-1", "Unknown", "sub">>
        /\ mc[c].ret[2].quality = <<"HD-1", "1280x720", "sub">>

\* C13: every stream extract emits or returns, a variant or the Auto stream,
\* has the referer https://<host>/, <host> being the host of the embed URL the
\* call was given, whatever the host of the playlist or of the variant URL.
C13_RefererIsEmbedHost ==
    \A c \in Calls :
        /\ \A k \in 1..Len(mc[c].videos) :
                mc[c].videos[k].referer = <<"https://", mc[c].url.host, "/">>
        /\ \A k \in 1..Len(mc[c].ret) :
                mc[c].ret[k].referer = <<"https://", mc[c].url.host, "/">>

C13_Witness ==
    \E c \in Calls :
        /\ mc[c].pc = "done" /\ mc[c].url.host = "rapid-cloud.co"
        /\ \E k \in 1..Len(mc[c].ret) : mc[c].ret[k].quality[2] = "Auto"
        /\ \E k \in 1..Len(mc[c].ret) :
                /\ mc[c].ret[k].quality[2] # "Auto"
                /\ mc[c].ret[k].url.abs
                /\ mc[c].ret[k].referer = <<"https://", "rapid-cloud.co", "/">>

\* the caption entries of a tracks list as subtitles, in the order of the list
RECURSIVE CaptionsOf(_)
CaptionsOf(tracks) ==
    IF tracks = <<>> THEN <<>>
    ELSE LET t == Head(tracks)
         IN  (IF "kind" \in DOMAIN t /\ t.kind = "captions"
              THEN <<[url |-> t.file,
                      label |-> IF "label" \in DOMAIN t THEN t.label ELSE "Unknown"]>>
              ELSE <<>>) \o CaptionsOf(Tail(tracks))

\* C15: the subtitles of every stream extract emits are the entries of the
\* sources response's tracks list whose kind is captions, in the order of that
\* list; so all streams of one source item carry the same subtitle list.
C15_SubtitlesAreCaptions ==
    \A c \in Calls :
        /\ \A k \in 1..Len(mc[c].videos) :
                mc[c].videos[k].subtitles = CaptionsOf(mc[c].data.tracks)
        /\ \A k \in 1..Len(mc[c].ret) :
                mc[c].ret[k].subtitles = CaptionsOf(mc[c].data.tracks)

C15_Witness ==
    \E c \in Calls :
        /\ mc[c].pc = "done" /\ Len(mc[c].ret) >= 3
        /\ Len(mc[c].data.tracks) = 3
        /\ mc[c].ret[1].quality[2] # "Auto"
        /\ mc[c].ret[Len(mc[c].ret)].quality[2] = "Auto"
        /\ mc[c].ret[1].subtitles =
                <<[url |-> "en", label |-> "en"], [url |-> "fr", label |-> "Unknown"]>>

(***************************************************************************)
(* Claims about StreamTapeExtractor.extract                                *)
(***************************************************************************)
\* the places of a script where the pattern of the kind matches
MatchPlaces(script, kind) ==
    {i \in 1..Len(script.places) :
        script.places[i].k = kind /\ script.places[i].s # <<>>}

\* the robotlink scripts of the page that arrived
RobotScripts == {i \in 1..Len(tape.page.scripts) : tape.page.scripts[i].robot}

\* C16: when the robotlink script matches innerHTML = 'P1' and + ('xcdP2'), the
\* resolved URL is https: + P1 + P2, without the xcd; when only the first
\* pattern matches it is https: + P1; when the first does not match, extract
\* returns None.
C16_UrlFromParts ==
    (tape.pc = "done" /\ tape.fetched # <<>> /\ tape.page.ok /\ RobotScripts # {}) =>
        LET script == tape.page.scripts[Least(RobotScripts)]
            m1 == MatchPlaces(script, "assign")
            m2 == MatchPlaces(script, "xcd")
        IN  IF m1 = {} THEN tape.ret = None
            ELSE IF m2 = {}
            THEN tape.ret.url = <<"https:">> \o script.places[Least(m1)].s
            ELSE tape.ret.url = <<"https:">> \o script.places[Least(m1)].s
                                    \o script.places[Least(m2)].s

C16_Witness ==
    /\ tape.pc = "done" /\ tape.page # None /\ tape.page.ok
    /\ Len(tape.page.scripts) = 2
    /\ tape.page.scripts[2].places = <<Xcd(<<"D">>), Assign(<<>>), Assign(<<"B">>)>>
    /\ tape.ret # None
    /\ tape.ret.url = <<"https:", "B", "D">>

\* the canonical prefix https://streamtape.com/e/ of a URL kept by its segments
Canonical(url) ==
    /\ Len(url) >= 5
    /\ url[1] = "https:" /\ url[2] = "" /\ url[3] = "streamtape.com" /\ url[4] = "e"

\* C17: the page extract fetches always has the canonical prefix: an input with
\* the prefix is fetched as it is, any other as the prefix plus its fifth
\* segment, and an input of fewer than five segments makes extract return None
\* without a request.
C17_CanonicalFetch ==
    /\ \A k \in 1..Len(tape.fetched) : Canonical(tape.fetched[k])
    /\ tape.pc \in {"page", "done"} =>
        IF Canonical(tape.url) THEN tape.fetched = <<tape.url>>
        ELSE IF Len(tape.url) >= 5
        THEN tape.fetched =
                <<<<"https:", "", "streamtape.com", "e", tape.url[5]>>>>
        ELSE tape.fetched = <<>> /\ tape.pc = "done" /\ tape.ret = None

C17_Witness ==
    /\ tape.pc = "done"
    /\ tape.url = <<"https:", "", "vid", "e", "vid">>
    /\ tape.fetched = <<<<"https:", "", "streamtape.com", "e", "vid">>>>

(***************************************************************************)
(* Claims about the result of get_video and about /watch                   *)
(***************************************************************************)
\* the fields of a ResolvedStream
StreamFields == {"quality", "url", "subtitles", "referer"}

\* C14: every element of the `videos` list get_video returns, whichever
\* resolver produced it, carries a quality label, a url, a subtitles list and a
\* referer.
C14_CompleteStreams ==
    \A c \in Calls :
        (gv[c].result # None /\ "videos" \in DOMAIN gv[c].result) =>
            \A k \in 1..Len(gv[c].result.videos) :
                StreamFields \subseteq DOMAIN gv[c].result.videos[k]

\* the items of a markup section whose displayed name is one of the four, as
\* descriptors of section b, in listing order
RECURSIVE KnownOf(_, _)
KnownOf(items, b) ==
    IF items = <<>> THEN <<>>
    ELSE (IF Head(items).name \in {"HD-1", "HD-2", "HD-3", "StreamTape"}
          THEN <<[id |-> Head(items).id, name |-> Head(items).name, type |-> b]>>
          ELSE <<>>) \o KnownOf(Tail(items), b)

\* C18: the mapping get_episode_servers returns always has the four buckets
\* sub, dub, raw and mixed; every descriptor in it has one of the names HD-1,
\* HD-2, HD-3, StreamTape; a bucket holds the hosters of its own markup section
\* that have such a name, in listing order, the others being dropped without
\* error (a bucket the type filter skips is empty).
C18_KnownHostersInOrder ==
    \A c \in Calls :
        gv[c].servers_data # None =>
            /\ DOMAIN gv[c].servers_data = {"sub", "dub", "raw", "mixed"}
            /\ \A b \in DOMAIN gv[c].servers_data :
                /\ \A k \in 1..Len(gv[c].servers_data[b]) :
                        gv[c].servers_data[b][k].name \in {"HD-1", "HD-2", "HD-3", "StreamTape"}
                /\ gv[c].servers_data[b] =
                        IF gv[c].req_type \in {"", b} THEN KnownOf(site[b], b) ELSE <<>>

C18_Witness ==
    \E c \in Calls :
        /\ gv[c].servers_data # None /\ gv[c].req_type = ""
        /\ Len(site["dub"]) = 2
        /\ site["dub"][1].name = "Vidcloud" /\ site["dub"][2].name = "HD-3"
        /\ gv[c].servers_data["dub"] = <<[id |-> <<"dub", 2>>, name |-> "HD-3", type |-> "dub"]>>

\* get_video was not called for frame f
CoreNotCalled(f) ==
    f.servers_data = None /\ f.result = None /\ f.ajax = "" /\ f.raised = ""

\* C19: /watch answers 400 with a detail naming the valid options, and does
\* not call get_video, whenever `server` is not exactly one of HD-1, HD-2, HD-3,
\* StreamTape or `type` is not exactly one of sub, dub, raw, mixed; the server
\* is checked before the type.
C19_InvalidParameters ==
    \A c \in Calls :
        (gv[c].caller = "watch" /\ gv[c].pc # "watch") =>
            IF gv[c].server \notin {"HD-1", "HD-2", "HD-3", "StreamTape"}
            THEN /\ gv[c].pc = "done" /\ gv[c].status = 400
                 /\ CoreNotCalled(gv[c])
                 /\ gv[c].detail = [what |-> "Invalid server", value |-> gv[c].server,
                                    options |-> {"HD-1", "HD-2", "HD-3", "StreamTape"}]
            ELSE IF gv[c].req_type \notin {"sub", "dub", "raw", "mixed"}
            THEN /\ gv[c].pc = "done" /\ gv[c].status = 400
                 /\ CoreNotCalled(gv[c])
                 /\ gv[c].detail = [what |-> "Invalid type", value |-> gv[c].req_type,
                                    options |-> {"sub", "dub", "raw", "mixed"}]
            ELSE gv[c].detail = None

C19_Witness ==
    \E c \in Calls :
        /\ gv[c].caller = "watch" /\ gv[c].pc = "done"
        /\ gv[c].server = "hd-1" /\ gv[c].req_type = "movie"
        /\ gv[c].status = 400 /\ gv[c].detail.what = "Invalid server"

\* the pieces of the error texts that read "not found" in some letter case
NotFoundWordings == {"not found", "Not Found", "NOT FOUND", "' not found for type '"}

\* C20: for /watch with valid parameters, a result carrying an error is
\* answered 404 when the error text contains "not found" in any letter case and
\* 400 for every other text; so ServerNotFound gives 404, the other error of
\* get_video gives 400, and no error gives 503 or 200.
C20_ErrorStatus ==
    \A c \in Calls :
        (/\ gv[c].caller = "watch" /\ gv[c].pc = "done"
         /\ gv[c].result # None
         /\ "error" \in DOMAIN gv[c].result
         /\ gv[c].result.error # <<>>) =>
            /\ gv[c].status =
                    IF \E i \in 1..Len(gv[c].result.error) :
                            gv[c].result.error[i] \in NotFoundWordings
                    THEN 404 ELSE 400
            /\ "available_servers" \in DOMAIN gv[c].result => gv[c].status = 404
            /\ gv[c].result.error = <<"Failed to get source link">> => gv[c].status = 400
            /\ gv[c].status \notin {200, 503}

C20_Witness ==
    \E c \in Calls :
        /\ gv[c].caller = "watch" /\ gv[c].pc = "done"
        /\ gv[c].result = [error |-> <<"Episode 3 ", "Not Found">>]
        /\ gv[c].status = 404

(***************************************************************************)
(* Claims about the listing endpoints                                      *)
(***************************************************************************)
\* the pieces of the error texts that read "invalid" in some letter case
InvalidWordings == {"invalid", "Invalid", "INVALID"}

\* the handled request carries an error: the key is there and its text not empty
CarriesError == "error" \in DOMAIN api.result /\ api.result.error # <<>>

HasPiece(text, wordings) == \E i \in 1..Len(text) : text[i] \in wordings

\* the list under `key` of the handled result is missing or empty
NoEntries(key) == key \notin DOMAIN api.result \/ api.result[key] = <<>>

\* the handled result has no server in any of the four buckets
NoServerListed ==
    \/ "servers" \notin DOMAIN api.result
    \/ \A b \in {"sub", "dub", "raw", "mixed"} :
            b \notin DOMAIN api.result.servers \/ api.result.servers[b] = <<>>

\* C21: /episodes and /servers answer a result carrying an error with 400 when
\* the text contains "invalid", else 404 when it contains "not found", else 503,
\* in any letter case; a result without error with 404 when it has no episodes,
\* respectively no server in any of the four buckets, and else return it as is.
C21_EpisodesServersStatus ==
    (api.pc = "done" /\ api.endpoint \in {"episodes", "servers"}) =>
        IF CarriesError
        THEN api.status =
                IF HasPiece(api.result.error, InvalidWordings) THEN 400
                ELSE IF HasPiece(api.result.error, NotFoundWordings) THEN 404
                ELSE 503
        ELSE IF (IF api.endpoint = "episodes" THEN NoEntries("episodes") ELSE NoServerListed)
        THEN api.status = 404
        ELSE api.status = 200 /\ api.body = api.result

C21_Witness ==
    /\ api.pc = "done" /\ api.endpoint = "servers"
    /\ api.result = [error |-> <<"INVALID", " id: ", "not found">>,
                     servers |-> [b \in BucketSet |-> IF b = "sub" THEN <<"HD-1">> ELSE <<>>]]
    /\ api.status = 400

\* C22: /search, /popular and /latest answer a result carrying an error with
\* 503 whatever its text, a result without error whose `results` list is empty
\* or missing with 404, and return only a result with an entry.
C22_ListingStatus ==
    (api.pc = "done" /\ api.endpoint \in {"search", "popular", "latest"}) =>
        IF CarriesError THEN api.status = 503
        ELSE IF NoEntries("results") THEN api.status = 404
        ELSE api.status = 200 /\ api.body = api.result

C22_Witness ==
    /\ api.pc = "done" /\ api.endpoint = "popular"
    /\ api.result = [error |-> <<"Anime ", "not found">>, results |-> <<"a">>]
    /\ api.status = 503

(***************************************************************************)
(* Claims about the pairing of playlist lines                              *)
(***************************************************************************)
\* the URL lines after marker line i of a playlist with nothing but comment and
\* blank lines in between
UrlLinesAfter(pl, i) ==
    {j \in (i + 1)..Len(pl) :
        /\ pl[j].k = "url"
        /\ \A m \in (i + 1)..(j - 1) : pl[m].k \in {"comment", "blank"}}

\* the marker lines whose next non-comment, non-blank line is a URL line
PairedMarkers(pl) ==
    InOrder({i \in 1..Len(pl) : pl[i].k = "inf" /\ UrlLinesAfter(pl, i) # {}})

\* C23: each stream-info line is paired with the next non-comment, non-blank
\* line as its URL, so a variant is returned with that URL also when comment or
\* blank lines stand between the two.
C23_SkipsCommentsAndBlanks ==
    [][\A c \in Calls :
        (PlaylistArrives(c) /\ Arrived(c).ok) =>
            LET pl == Arrived(c).playlist
                ms == PairedMarkers(pl)
                qualities == Expansion(c, mc[c].result[mc[c].j])
            IN  /\ Len(qualities) = Len(ms)
                /\ \A k \in 1..Len(ms) :
                        qualities[k].url.n = pl[Least(UrlLinesAfter(pl, ms[k]))].n]_vars

(***************************************************************************)
(* Claims about the order of the remote steps                              *)
(***************************************************************************)
\* no descriptor of the listing get_video received carries the server name
NoHosterMatches(f) ==
    \A b \in DOMAIN f.servers_data :
        \A i \in 1..Len(f.servers_data[b]) : ~NameMatches(f.servers_data[b][i], f.server)

ResolverNames == {"streamtape", "megacloud"}

\* the completed remote steps of frame f that are resolver calls
ResolverInvocations(f) == {i \in 1..Len(f.trace) : f.trace[i] \in ResolverNames}

\* the completed remote steps of frame f that are source-link requests
SourceLinkRequests(f) == {i \in 1..Len(f.trace) : f.trace[i] = "sources"}

\* C24: in get_video the server-listing request completes before the
\* source-link request is issued and the source-link request completes before
\* a resolver is invoked; when no hoster matches the server name there is no
\* source-link request and no resolver call; when the source link is empty or
\* missing the call returns SourceLinkMissing and invokes no resolver.
C24_OrderedEarlyExit ==
    \A c \in Calls :
        LET f == gv[c]
        IN  /\ \A i \in SourceLinkRequests(f) :
                    /\ i >= 2 /\ f.trace[i - 1] = "servers"
                    /\ f.servers_data # None
            /\ \A i \in ResolverInvocations(f) :
                    /\ i >= 3 /\ f.trace[i - 1] = "sources" /\ f.trace[i - 2] = "servers"
                    /\ f.ajax = "ok" /\ f.source_link # Empty
            /\ Cardinality(SourceLinkRequests(f)) <= 1
            /\ Cardinality(ResolverInvocations(f)) <= 1
            /\ (f.servers_data # None /\ f.pc # "find" /\ NoHosterMatches(f)) =>
                    /\ SourceLinkRequests(f) = {} /\ ResolverInvocations(f) = {}
                    /\ f.result = ServerNotFound(f.server, f.type, f.servers_data)
            /\ (SourceLinkRequests(f) # {} /\ f.ajax = "ok" /\ f.source_link = Empty) =>
                    /\ f.result = SourceLinkMissing
                    /\ ResolverInvocations(f) = {} /\ f.resolver = "none"

C24_Witness ==
    \E c \in Calls :
        /\ gv[c].pc = "done" /\ gv[c].trace = <<"servers", "sources">>
        /\ gv[c].target_server # None
        /\ gv[c].ajax = "ok" /\ gv[c].source_link = Empty
        /\ gv[c].result = SourceLinkMissing

\* the sources responses that reached call c before it sent request k
SourcesBefore(c, k) ==
    {s \in 1..(k - 1) :
        /\ mc[c].resp[s].kind = "sources"
        /\ mc[c].resp[s].r.ok /\ mc[c].resp[s].r.json}

\* C25: within one MegaCloud chain no two requests are in flight at once, the
\* sources request follows the nonce taken from the embed page response, a
\* decrypt request follows the sources response and the key, and the playlist
\* fetch of an item follows the arrival of that item's playable URL.
C25_SequentialChain ==
    \A c \in Calls :
        LET reqs == wire[c]
            resp == mc[c].resp
        IN  /\ Len(resp) <= Len(reqs) /\ Len(reqs) <= Len(resp) + 1
            /\ \A k \in 1..Len(resp) : resp[k].kind = reqs[k].kind
            /\ \A k \in 1..Len(reqs) :
                /\ reqs[k].kind = "sources" =>
                    /\ k > 1 /\ resp[k - 1].kind = "embed" /\ resp[k - 1].r.ok
                    /\ reqs[k].nonce # NoNonce
                    /\ reqs[k].nonce = ExtractNonce(resp[k - 1].r.body)
                /\ reqs[k].kind = "decrypt" =>
                    /\ \E s \in SourcesBefore(c, k) :
                        /\ reqs[k].item \in 1..Len(resp[s].r.data.sources)
                        /\ reqs[k].encrypted_data = resp[s].r.data.sources[reqs[k].item]
                    /\ reqs[k].secret # NoKey
                    /\ \E s \in 1..(k - 1) :
                        /\ resp[s].kind = "keys" /\ resp[s].r.ok
                        /\ "mega" \in DOMAIN resp[s].r
                        /\ resp[s].r.mega = reqs[k].secret
                /\ reqs[k].kind = "playlist" =>
                    /\ ~EmptyUrl(reqs[k].url)
                    /\ reqs[k].url.how = "verbatim" =>
                        \E s \in SourcesBefore(c, k) :
                            /\ reqs[k].item \in 1..Len(resp[s].r.data.sources)
                            /\ HasM3u8(resp[s].r.data.sources[reqs[k].item])
                               \/ resp[s].r.data.encrypted = "false"
                    /\ reqs[k].url.how = "decrypted" =>
                        \E s \in 1..(k - 1) :
                            /\ resp[s].kind = "decrypt" /\ resp[s].r.ok /\ resp[s].r.file
                            /\ resp[s].r.url = reqs[k].url
                    /\ \A m \in k..Len(reqs) : reqs[m].kind = "playlist"

C25_Witness ==
    \E c \in Calls :
        /\ mc[c].pc = "done" /\ mc[c].ret # <<>>
        /\ Len(mc[c].resp) = Len(wire[c])
        /\ [k \in 1..Len(wire[c]) |-> wire[c][k].kind]
                = <<"embed", "sources", "keys", "decrypt", "decrypt", "playlist", "playlist">>

(***************************************************************************)
(* Claims about the HTTP sessions                                          *)
(***************************************************************************)
\* this step sends a request of actor a
SendsRequest(a) == Len(sess'.actor[a].requests) > Len(sess.actor[a].requests)

\* this step is the one of HiAnime.close that closes actor a
HiAnimeCloses(a) == sess'.closing # sess.closing /\ a = CloseOrder[sess.closing + 1]

\* C26: for each of the three actors, whatever requests and close calls
\* interleave, at most one session it created is open; _get_session creates a
\* session only when there is none or the previous one is closed and returns
\* the open one otherwise; close on a never-opened or already closed actor
\* changes nothing; a request made after close runs on a fresh session instead
\* of failing; HiAnime.close closes the sessions of all three actors.
C26_OneOpenSession ==
    [][\A a \in Actors :
        LET before == sess.actor[a]
            after == sess'.actor[a]
        IN  /\ Cardinality(OpenSessions(after)) <= 1
            /\ after.created > before.created =>
                    /\ NoneOrClosed(before)
                    /\ after.created = before.created + 1
                    /\ after.session = after.created
            /\ (SendsRequest(a) /\ ~NoneOrClosed(before)) =>
                    /\ after.session = before.session
                    /\ after.created = before.created
            /\ (~SendsRequest(a) /\ NoneOrClosed(before)) => after = before
            /\ SendsRequest(a) =>
                    LET request == after.requests[Len(after.requests)]
                    IN  ~request.refused /\ request.on \in OpenSessions(after)
            /\ HiAnimeCloses(a) => OpenSessions(after) = {}]_vars

====
